---------------------------- MODULE Spec2Model ----------------------------
(***************************************************************************)
(* A model of the feedback classification-and-prioritisation pipeline:     *)
(* PipelineOrchestrator.run and the agents it drives (ClassifierAgent,     *)
(* BugAnalysisAgent, FeatureExtractorAgent, TicketCreatorAgent).           *)
(*                                                                         *)
(* Representation.                                                         *)
(*  - A record or ticket (a Python dict) is a function from field names to *)
(*    values; a field the dict does not hold is outside its DOMAIN.        *)
(*  - A text is the set of fragments it is made of (joined by blanks in    *)
(*    the real string).  The fragments are chosen so that no keyword of    *)
(*    any table spans two fragments; `kw in text` (Python substring test)  *)
(*    is Contains below.                                                   *)
(*  - Scores and weights are in hundredths (0.9 is 90); confidence and     *)
(*    demand_score, which the code rounds to 3 decimals, in thousandths.   *)
(*  - The processing log is the sequence of entries written so far, each   *)
(*    reduced to agent, action, status and record_id.                      *)
(*  - A statement inside a try block may raise (the logger does file I/O   *)
(*    on every call, record fields may be malformed): the step for that    *)
(*    record then takes its except branch.  `fault` says where the body    *)
(*    raised: "before" its writes to the record or "after" them (at the    *)
(*    trailing log call).  Statements outside a try block complete.        *)
(***************************************************************************)
EXTENDS Integers, Sequences, FiniteSets, TLC

VARIABLES
    pc,        \* the orchestrator's position in run()
    ingested,  \* history: the record list as CSVReaderAgent returned it
    records,   \* the record list handed from stage to stage
    classified, \* ClassifierAgent.execute: the list it builds and returns
    i,         \* 1-based index of the next element the running loop visits
    theme_counts, \* FeatureExtractorAgent.execute: the batch's theme table
    max_count, \* FeatureExtractorAgent.execute: its maximum (1 if empty)
    tickets,   \* the ticket list: built by TicketCreatorAgent.execute,
               \* annotated by QualityCriticAgent.execute
    log,       \* ProcessingLogger: entries appended so far
    score,     \* a direct call of _score_to_priority: its demand_score ...
    level,     \* ... and the level it returned ("" before it returns)
    expected_labels, \* compute_metrics: the entries _load_expected returned
    metrics    \* compute_metrics: the report it returned

vars == <<pc, ingested, records, classified, i, theme_counts, max_count, tickets,
          log, score, level, expected_labels, metrics>>

\* The variables of a direct call of _score_to_priority.
call_vars == <<score, level>>

\* The variables of compute_metrics.
metric_vars == <<expected_labels, metrics>>

(***************************************************************************)
(* Bounds of the model.                                                    *)
(***************************************************************************)
MaxBatch == 2      \* records in a batch drawn from BatchPool
MaxPhrases == 2    \* fragments in the text of a single-record batch

(***************************************************************************)
(* Dict helpers.                                                           *)
(***************************************************************************)
Put(d, k, v) == [x \in DOMAIN d \cup {k} |-> IF x = k THEN v ELSE d[x]]

Get(d, k, default) == IF k \in DOMAIN d THEN d[k] ELSE default

EmptyDict == [x \in {} |-> 0]

RECURSIVE SumSeq(_)
SumSeq(s) == IF s = <<>> THEN 0 ELSE Head(s) + SumSeq(Tail(s))

Range(s) == {s[k] : k \in DOMAIN s}

(***************************************************************************)
(* Configuration tables (core/config.py, feature_extractor_agent.py), in   *)
(* the order the source writes them: Python dicts iterate in that order.   *)
(***************************************************************************)
keyword_weights ==
  ( "Bug" :> <<
        <<"crash", 90>>, <<"bug", 90>>, <<"error", 85>>, <<"broken", 85>>,
        <<"not working", 80>>, <<"fail", 80>>, <<"freeze", 75>>,
        <<"stuck", 70>>, <<"glitch", 80>>, <<"issue", 50>>,
        <<"problem", 60>>, <<"fix", 50>>, <<"won't load", 80>>,
        <<"can't open", 75>>, <<"slow", 40>>, <<"unresponsive", 70>>,
        <<"black screen", 80>>, <<"force close", 85>>, <<"data loss", 90>>,
        <<"lost my", 70>>, <<"disappeared", 70>>, <<"login fail", 80>>,
        <<"sync", 50>>, <<"update broke", 85>> >>
  @@ "Feature Request" :> <<
        <<"add", 60>>, <<"feature", 80>>, <<"wish", 70>>,
        <<"would be nice", 80>>, <<"suggestion", 80>>,
        <<"please include", 80>>, <<"should have", 70>>, <<"need", 50>>,
        <<"want", 50>>, <<"improve", 50>>, <<"could you", 60>>,
        <<"it would help", 75>>, <<"missing", 40>>, <<"request", 70>>,
        <<"dark mode", 85>>, <<"integration", 60>>, <<"support for", 70>>,
        <<"option to", 70>>, <<"ability to", 70>>, <<"allow", 50>> >>
  @@ "Praise" :> <<
        <<"love", 80>>, <<"great", 70>>, <<"awesome", 80>>,
        <<"excellent", 85>>, <<"amazing", 85>>, <<"best", 70>>,
        <<"perfect", 80>>, <<"fantastic", 85>>, <<"wonderful", 80>>,
        <<"thank", 60>>, <<"good job", 80>>, <<"well done", 80>>,
        <<"helpful", 60>>, <<"recommend", 70>>, <<"five stars", 90>>,
        <<"5 stars", 90>>, <<"intuitive", 70>>, <<"beautiful", 70>>,
        <<"smooth", 60>>, <<"impressed", 80>> >>
  @@ "Complaint" :> <<
        <<"terrible", 85>>, <<"worst", 85>>, <<"hate", 80>>, <<"awful", 85>>,
        <<"horrible", 85>>, <<"disappointed", 80>>, <<"frustrating", 80>>,
        <<"annoying", 70>>, <<"waste", 70>>, <<"useless", 80>>,
        <<"poor", 60>>, <<"bad", 60>>, <<"unacceptable", 85>>,
        <<"ridiculous", 70>>, <<"overpriced", 70>>, <<"scam", 80>>,
        <<"regret", 75>>, <<"misleading", 70>>, <<"uninstall", 70>>,
        <<"refund", 80>>, <<"angry", 75>>, <<"furious", 85>> >>
  @@ "Spam" :> <<
        <<"click here", 90>>, <<"free money", 95>>, <<"buy now", 90>>,
        <<"limited offer", 85>>, <<"act now", 85>>, <<"winner", 80>>,
        <<"congratulations", 70>>, <<"earn money", 90>>,
        <<"discount code", 80>>, <<"subscribe", 50>>, <<"visit my", 85>>,
        <<"check out my", 80>>, <<"http://", 60>>, <<"www.", 50>>,
        <<"promo", 70>>, <<"casino", 90>>, <<"lottery", 90>>, <<"viagra", 95>> >> )

\* The keys of keyword_weights in insertion order.
CategoryOrder == <<"Bug", "Feature Request", "Praise", "Complaint", "Spam">>

bug_severity_keywords ==
  ( "Critical" :> <<
        "crash", "data loss", "lost my", "disappeared", "corrupt",
        "black screen", "force close", "bricked", "won't start" >>
  @@ "High" :> <<
        "login", "can't access", "sync", "payment", "security",
        "authentication", "password", "account locked", "not loading" >>
  @@ "Medium" :> <<
        "slow", "lag", "delay", "minor", "cosmetic", "alignment", "typo",
        "formatting", "color", "font" >> )

FEATURE_THEMES ==
  << <<"dark mode", <<"dark mode", "night mode", "dark theme">> >>,
     <<"offline mode", <<"offline", "without internet", "no connection">> >>,
     <<"integration", <<"integration", "integrate", "api", "connect with">> >>,
     <<"export", <<"export", "download", "csv", "json", "pdf export">> >>,
     <<"accessibility", <<"accessibility", "screen reader", "contrast", "wcag">> >>,
     <<"admin controls", <<"admin", "role", "permission", "sso", "rbac">> >>,
     <<"time tracking", <<"time tracking", "timer", "pomodoro", "time spent">> >>,
     <<"customization", <<"customize", "custom", "widget", "layout", "theme">> >>,
     <<"encryption", <<"encryption", "encrypt", "end-to-end", "e2ee", "security">> >>,
     <<"collaboration", <<"collaboration", "team", "shared", "real-time">> >>,
     <<"pricing", <<"discount", "pricing", "educational", "bulk", "license">> >>,
     <<"notifications", <<"notification", "alert", "reminder">> >> >>

feature_priority_thresholds == ("High" :> 700) @@ ("Medium" :> 400) @@ ("Low" :> 0)

(***************************************************************************)
(* Texts.  Fragments are written as they appear in the input (two of them  *)
(* in capitals); matching always goes through lower().                     *)
(***************************************************************************)
Fragments ==
    { "hello", "CRASH", "sync", "slow", "error", "login fail",
      "Dark Mode", "integration", "feature", "love", "terrible", "click here" }

\* str.lower() on a fragment.
lower(f) ==
    CASE f = "CRASH" -> "crash"
      [] f = "Dark Mode" -> "dark mode"
      [] OTHER -> f

LowerText(text) == {lower(f) : f \in text}

\* The table keywords that are substrings of a (lowercased) fragment.
Substrings(f) ==
    CASE f = "login fail" -> {"login fail", "login", "fail"}
      [] OTHER -> {f}

\* Python's `kw in text` for a lowercased text.
Contains(text, kw) == \E f \in text : kw \in Substrings(f)


(***************************************************************************)
(* ClassifierAgent._classify_single                                        *)
(***************************************************************************)
\* One category's pass over its keywords: the score, a sum of the weights
\* of the keywords found in the text.
CategoryScore(text, kws) ==
    SumSeq([j \in DOMAIN kws |->
              IF Contains(text, lower(kws[j][1])) THEN kws[j][2] ELSE 0])

\* ... and the keywords found, in table order.
RECURSIVE Matches(_, _)
Matches(text, kws) ==
    IF kws = <<>> THEN <<>>
    ELSE IF Contains(text, lower(Head(kws)[1]))
         THEN <<Head(kws)[1]>> \o Matches(text, Tail(kws))
         ELSE Matches(text, Tail(kws))

KeywordScores(text) ==
    [c \in Range(CategoryOrder) |-> CategoryScore(text, keyword_weights[c])]

\* int(rating) for the rating strings of the model: the value, or ValueError.
ParseInt(s) ==
    CASE s = "1" -> [ok |-> TRUE, value |-> 1]
      [] s = "2" -> [ok |-> TRUE, value |-> 2]
      [] s = "3" -> [ok |-> TRUE, value |-> 3]
      [] s = "4" -> [ok |-> TRUE, value |-> 4]
      [] s = "5" -> [ok |-> TRUE, value |-> 5]
      [] OTHER   -> [ok |-> FALSE, value |-> 0]

\* Mutant: the high-rating test written `r > 4`.
RatingBoost_StrictHigh(scores, rating) ==
    IF rating = "" THEN scores
    ELSE LET r == ParseInt(rating) IN
         IF ~r.ok THEN scores
         ELSE IF r.value > 4
              THEN [scores EXCEPT !["Praise"] = @ + 50]
         ELSE IF r.value <= 2
              THEN [scores EXCEPT !["Bug"] = @ + 20, !["Complaint"] = @ + 30]
         ELSE scores

\* Mutant: the low-rating test written `r < 2`.
RatingBoost_StrictLow(scores, rating) ==
    IF rating = "" THEN scores
    ELSE LET r == ParseInt(rating) IN
         IF ~r.ok THEN scores
         ELSE IF r.value >= 4
              THEN [scores EXCEPT !["Praise"] = @ + 50]
         ELSE IF r.value < 2
              THEN [scores EXCEPT !["Bug"] = @ + 20, !["Complaint"] = @ + 30]
         ELSE scores

\* The rating boost: `if rating:` skips an empty rating, ValueError is passed.
RatingBoost(scores, rating) ==
    IF rating = "" THEN scores
    ELSE LET r == ParseInt(rating) IN
         IF ~r.ok THEN scores
         ELSE IF r.value >= 4
              THEN [scores EXCEPT !["Praise"] = @ + 50]
         ELSE IF r.value <= 2
              THEN [scores EXCEPT !["Bug"] = @ + 20, !["Complaint"] = @ + 30]
         ELSE scores

\* record.get("metadata", {}).get("rating", "")
RatingOf(record) == Get(Get(record, "metadata", EmptyDict), "rating", "")

Scores(record) ==
    RatingBoost(KeywordScores(LowerText(record.text)), RatingOf(record))

\* sum(scores.values()) or 1.0
Total(scores) ==
    LET sum == SumSeq([k \in DOMAIN CategoryOrder |-> scores[CategoryOrder[k]]])
    IN  IF sum # 0 THEN sum ELSE 100

\* Mutant: among equal largest scores the last key wins.
MaxKey_LastMax(scores) ==
    LET last == CHOOSE k \in DOMAIN CategoryOrder :
                   /\ \A j \in DOMAIN CategoryOrder :
                         scores[CategoryOrder[j]] <= scores[CategoryOrder[k]]
                   /\ \A j \in (k + 1)..Len(CategoryOrder) :
                         scores[CategoryOrder[j]] < scores[CategoryOrder[k]]
    IN  CategoryOrder[last]

\* max(scores, key=scores.get): the first key, in insertion order, whose
\* score is the largest.
MaxKey(scores) ==
    LET first == CHOOSE k \in DOMAIN CategoryOrder :
                   /\ \A j \in DOMAIN CategoryOrder :
                         scores[CategoryOrder[j]] <= scores[CategoryOrder[k]]
                   /\ \A j \in 1..(k - 1) :
                         scores[CategoryOrder[j]] < scores[CategoryOrder[k]]
    IN  CategoryOrder[first]

\* round(n / d, 3) in thousandths: to the nearest, an exact half to even.
Round3(n, d) ==
    LET q == (1000 * n) \div d
        r == (1000 * n) % d
    IN  IF 2 * r < d THEN q
        ELSE IF 2 * r > d THEN q + 1
        ELSE IF q % 2 = 0 THEN q ELSE q + 1

Min(a, b) == IF a <= b THEN a ELSE b

FirstN(s, n) == SubSeq(s, 1, Min(n, Len(s)))

DefaultReasoning ==
    [message |-> "No strong keyword matches; defaulting to Complaint",
     keywords |-> <<>>, score |-> 0, total |-> 0]

\* Mutant: the winner's raw score reported as the confidence.
Classification_RawScore(record) ==
    LET scores == Scores(record) IN
    IF \A c \in DOMAIN scores : scores[c] = 0
    THEN [category |-> "Complaint", confidence |-> 300,
          reasoning |-> DefaultReasoning]
    ELSE LET total == Total(scores)
             category == MaxKey(scores)
         IN  [category |-> category,
              confidence |-> 10 * scores[category],
              reasoning |->
                 [message |-> "Matched keywords",
                  keywords |-> FirstN(Matches(LowerText(record.text),
                                              keyword_weights[category]), 5),
                  score |-> scores[category], total |-> total]]

\* Mutant: the all-zero test made on the keyword scores, before the
\* rating boost.
Classification_DefaultBeforeBoost(record) ==
    LET scores == Scores(record)
        keyword == KeywordScores(LowerText(record.text))
    IN
    IF \A c \in DOMAIN keyword : keyword[c] = 0
    THEN [category |-> "Complaint", confidence |-> 300,
          reasoning |-> DefaultReasoning]
    ELSE LET total == Total(scores)
             category == MaxKey(scores)
         IN  [category |-> category,
              confidence |-> Min(Round3(scores[category], total), 1000),
              reasoning |->
                 [message |-> "Matched keywords",
                  keywords |-> FirstN(Matches(LowerText(record.text),
                                              keyword_weights[category]), 5),
                  score |-> scores[category], total |-> total]]

\* The three fields _classify_single computes.
Classification(record) ==
    LET scores == Scores(record) IN
    IF \A c \in DOMAIN scores : scores[c] = 0
    THEN [category |-> "Complaint", confidence |-> 300,
          reasoning |-> DefaultReasoning]
    ELSE LET total == Total(scores)
             category == MaxKey(scores)
         IN  [category |-> category,
              confidence |-> Min(Round3(scores[category], total), 1000),
              reasoning |->
                 [message |-> "Matched keywords",
                  keywords |-> FirstN(Matches(LowerText(record.text),
                                              keyword_weights[category]), 5),
                  score |-> scores[category], total |-> total]]

classify_single(record) ==
    LET c == Classification(record) IN
    Put(Put(Put(record, "category", c.category),
            "confidence", c.confidence), "reasoning", c.reasoning)

confidence_threshold == 600

\* The status of the entry _classify_single logs for a classified record.
ClassifyStatus(record) ==
    IF record.confidence >= confidence_threshold THEN "SUCCESS" ELSE "WARNING"

\* Mutant: the except branch forgets the category.
ClassifyFailed_NoCategory(record) ==
    Put(Put(record, "confidence", 0),
        "reasoning", [message |-> "Classification error", keywords |-> <<>>,
                      score |-> 0, total |-> 0])

\* The except branch of ClassifierAgent.execute.
ClassifyFailed(record) ==
    Put(Put(Put(record, "category", "Unknown"), "confidence", 0),
        "reasoning", [message |-> "Classification error", keywords |-> <<>>,
                      score |-> 0, total |-> 0])

(***************************************************************************)
(* The processing log.                                                     *)
(***************************************************************************)
Entry(agent, action, status, record_id) ==
    [agent |-> agent, action |-> action, status |-> status,
     record_id |-> record_id]

Faults == {"before", "after", "none"}

(***************************************************************************)
(* Ingestion: the record list CSVReaderAgent.execute returns.              *)
(***************************************************************************)
Ratings == {"", "1", "2", "3", "4", "5", "abc"}

Texts == {t \in SUBSET Fragments : Cardinality(t) \in 1..MaxPhrases}

Review(text, rating) ==
    [record_id |-> "", source_type |-> "app_review", text |-> text,
     metadata |-> [user_name |-> "", rating |-> rating,
                   app_version |-> "", device |-> ""]]

Email(text) ==
    [record_id |-> "", source_type |-> "support_email", text |-> text,
     metadata |-> [sender |-> "", subject |-> "", priority_stated |-> ""]]

\* Any one record.
AnyRecord ==
    {Review(t, r) : t \in Texts, r \in Ratings} \cup {Email(t) : t \in Texts}

\* The records batches of several records are made of.
BatchPool ==
    { Review({"CRASH"}, "1"), Email({"sync", "slow"}),
      Review({"Dark Mode"}, ""), Email({"integration"}),
      Email({"Dark Mode", "integration"}), Review({"feature"}, "3"),
      Review({"love"}, "5"), Email({"hello"}), Review({"click here"}, "") }

\* Batches of feature requests in which a theme is matched two and three
\* times, next to a request that matches no theme.
FeatureBatches ==
    { << Email({"integration"}), Email({"integration"}),
         Review({"feature"}, "3") >>,
      << Email({"integration"}), Email({"integration"}),
         Email({"integration"}), Review({"feature"}, "3") >> }

RecordId(k) == "R" \o ToString(k)

WithIds(batch) ==
    [k \in DOMAIN batch |-> [batch[k] EXCEPT !.record_id = RecordId(k)]]

SeqsUpTo(S, n) == UNION {[1..m -> S] : m \in 0..n}

Batches ==
    {WithIds(b) : b \in SeqsUpTo(BatchPool, MaxBatch) \cup [1..1 -> AnyRecord]
                        \cup FeatureBatches}

(***************************************************************************)
(* core/utils.py extractors and BugAnalysisAgent                           *)
(***************************************************************************)
devices ==
    << "iPhone", "iPad", "Samsung", "Pixel", "Galaxy", "Android", "iOS",
       "Huawei", "OnePlus", "Xiaomi", "MacBook", "Windows", "Linux",
       "Chrome OS", "tablet", "phone" >>

RECURSIVE Join(_, _)
Join(sep, s) ==
    IF s = <<>> THEN ""
    ELSE IF Len(s) = 1 THEN s[1]
    ELSE s[1] \o sep \o Join(sep, Tail(s))

\* ", ".join of the devices named in the text; "" stands for None.
extract_device_info(text) ==
    Join(", ", SelectSeq(devices,
                         LAMBDA d : Contains(LowerText(text), d)))

\* The OS and version patterns need a digit and no fragment holds one:
\* re.search finds nothing and the result is None ("").
extract_os_info(text) == ""

extract_version(text) == ""

\* No fragment holds a numbered step or one of the action phrases.
extract_repro_steps(text) == "No clear reproduction steps identified"

\* `a or b`, for strings.
Or(a, b) == IF a # "" THEN a ELSE b

SeverityOrder == <<"Critical", "High", "Medium">>

\* Mutant: a bug that names no severity keyword is of Low severity.
determine_severity_LowDefault(text) ==
    LET text_lower == LowerText(text)
        hit(severity) ==
            \E j \in DOMAIN Get(bug_severity_keywords, severity, <<>>) :
                Contains(text_lower, lower(bug_severity_keywords[severity][j]))
        hits == {k \in DOMAIN SeverityOrder : hit(SeverityOrder[k])}
    IN  IF hits = {} THEN "Low"
        ELSE SeverityOrder[CHOOSE k \in hits : \A j \in hits : k <= j]

determine_severity(text) ==
    LET text_lower == LowerText(text)
        hit(severity) ==
            \E j \in DOMAIN Get(bug_severity_keywords, severity, <<>>) :
                Contains(text_lower, lower(bug_severity_keywords[severity][j]))
        hits == {k \in DOMAIN SeverityOrder : hit(SeverityOrder[k])}
    IN  IF hits = {} THEN "Medium"
        ELSE SeverityOrder[CHOOSE k \in hits : \A j \in hits : k <= j]

analyze_bug(record) ==
    LET text == Get(record, "text", {})
        metadata == Get(record, "metadata", EmptyDict)
        severity == determine_severity(text)
        details ==
            [device |-> Or(extract_device_info(text),
                           Or(Get(metadata, "device", ""), "Unknown")),
             os |-> Or(extract_os_info(text), "Unknown"),
             app_version |-> Or(extract_version(text),
                                Or(Get(metadata, "app_version", ""), "Unknown")),
             reproduction_steps |-> extract_repro_steps(text),
             severity |-> severity]
    IN  Put(Put(record, "bug_details", details), "priority", severity)

\* The except branch of BugAnalysisAgent.execute, on the record as the
\* try body left it.
BugFailed(record) ==
    Put(IF "bug_details" \in DOMAIN record THEN record
        ELSE Put(record, "bug_details", EmptyDict),
        "priority", "Medium")

(***************************************************************************)
(* FeatureExtractorAgent                                                   *)
(***************************************************************************)
ThemeMatches(text_lower, k) ==
    \E j \in DOMAIN FEATURE_THEMES[k][2] :
        Contains(text_lower, FEATURE_THEMES[k][2][j])

\* Mutant: the first record of the list is not counted.
count_themes_SkipsFirst(recs) ==
    LET n(k) == Cardinality({r \in DOMAIN recs \ {1} :
                   ThemeMatches(LowerText(Get(recs[r], "text", {})), k)})
        keys == {k \in DOMAIN FEATURE_THEMES : n(k) > 0}
    IN  [t \in {FEATURE_THEMES[k][1] : k \in keys} |->
            n(CHOOSE k \in keys : FEATURE_THEMES[k][1] = t)]

\* Counter: a theme is a key once a record matched it.
count_themes(recs) ==
    LET n(k) == Cardinality({r \in DOMAIN recs :
                   ThemeMatches(LowerText(Get(recs[r], "text", {})), k)})
        keys == {k \in DOMAIN FEATURE_THEMES : n(k) > 0}
    IN  [t \in {FEATURE_THEMES[k][1] : k \in keys} |->
            n(CHOOSE k \in keys : FEATURE_THEMES[k][1] = t)]

MaxOf(S) == CHOOSE m \in S : \A x \in S : x <= m

\* Mutant: the number of themes taken for the largest count.
MaxCount_NumberOfThemes(counts) ==
    IF DOMAIN counts # {} THEN Cardinality(DOMAIN counts) ELSE 1

\* Mutant: 0 for an empty theme table.
MaxCount_ZeroWhenEmpty(counts) ==
    IF DOMAIN counts # {} THEN MaxOf({counts[t] : t \in DOMAIN counts}) ELSE 0

MaxCount(counts) ==
    IF DOMAIN counts # {} THEN MaxOf({counts[t] : t \in DOMAIN counts}) ELSE 1

\* The first theme, in table order, the text matches; "" if none.
identify_theme(text) ==
    LET hits == {k \in DOMAIN FEATURE_THEMES : ThemeMatches(LowerText(text), k)}
    IN  IF hits = {} THEN ""
        ELSE FEATURE_THEMES[CHOOSE k \in hits : \A j \in hits : k <= j][1]

PriorityLevels == <<"High", "Medium", "Low">>

\* Mutant: the threshold test written `>`.
score_to_priority_Strict(demand_score) ==
    LET ok == {k \in DOMAIN PriorityLevels :
                 demand_score > Get(feature_priority_thresholds,
                                    PriorityLevels[k], 0)}
    IN  IF ok = {} THEN "Low"
        ELSE PriorityLevels[CHOOSE k \in ok : \A j \in ok : k <= j]

score_to_priority(demand_score) ==
    LET ok == {k \in DOMAIN PriorityLevels :
                 demand_score >= Get(feature_priority_thresholds,
                                     PriorityLevels[k], 0)}
    IN  IF ok = {} THEN "Low"
        ELSE PriorityLevels[CHOOSE k \in ok : \A j \in ok : k <= j]

\* No fragment holds a request phrase or sentence punctuation, and a text
\* is shorter than 200 characters: the description is the whole text.
extract_description(text) == text

\* Mutant: a text that matches no theme counts for nothing.
analyze_feature_ZeroCount(record, counts, maxc) ==
    LET text == Get(record, "text", {})
        theme == identify_theme(text)
        count == IF theme # "" THEN Get(counts, theme, 1) ELSE 0
        demand_score == IF maxc # 0 THEN Round3(count, maxc) ELSE 0
        details ==
            [description |-> extract_description(text),
             theme |-> Or(theme, "other"),
             demand_score |-> demand_score,
             occurrences |-> count]
    IN  Put(Put(record, "feature_details", details),
            "priority", score_to_priority(demand_score))

analyze_feature(record, counts, maxc) ==
    LET text == Get(record, "text", {})
        theme == identify_theme(text)
        count == IF theme # "" THEN Get(counts, theme, 1) ELSE 1
        demand_score == IF maxc # 0 THEN Round3(count, maxc) ELSE 0
        details ==
            [description |-> extract_description(text),
             theme |-> Or(theme, "other"),
             demand_score |-> demand_score,
             occurrences |-> count]
    IN  Put(Put(record, "feature_details", details),
            "priority", score_to_priority(demand_score))

\* The except branch of FeatureExtractorAgent.execute.
FeatureFailed(record) ==
    Put(Put(record, "priority", "Medium"), "feature_details", EmptyDict)

\* The records of a category, and the position of the next one from k on.
Indexes(recs, category) ==
    {k \in DOMAIN recs : Get(recs[k], "category", "") = category}

\* Mutant: the loop visits every record, whatever its category.
NextIndex_EveryRecord(recs, k, category) ==
    IF k <= Len(recs) THEN k ELSE Len(recs) + 1

NextIndex(recs, k, category) ==
    LET rest == {j \in Indexes(recs, category) : j >= k}
    IN  IF rest = {} THEN Len(recs) + 1
        ELSE CHOOSE j \in rest : \A x \in rest : j <= x

\* [r for r in records if r.get("category") == category]
Select(recs, category) == SelectSeq(recs, LAMBDA r : Get(r, "category", "") = category)

(***************************************************************************)
(* Step 5 of run(): the default priority.                                  *)
(***************************************************************************)
\* Mutant: no fallback for the other categories.
default_priority_NoFallback(record) ==
    IF "priority" \in DOMAIN record THEN record
    ELSE LET cat == Get(record, "category", "") IN
         CASE cat = "Praise" -> Put(record, "priority", "Low")
           [] cat = "Complaint" -> Put(record, "priority", "High")
           [] cat = "Spam" -> Put(record, "priority", "Low")
           [] OTHER -> record

\* Mutant: the priority written whether or not the record has one.
default_priority_Overwrite(record) ==
    LET cat == Get(record, "category", "") IN
    CASE cat = "Praise" -> Put(record, "priority", "Low")
      [] cat = "Complaint" -> Put(record, "priority", "High")
      [] cat = "Spam" -> Put(record, "priority", "Low")
      [] OTHER -> Put(record, "priority", "Medium")

default_priority(record) ==
    IF "priority" \in DOMAIN record THEN record
    ELSE LET cat == Get(record, "category", "") IN
         Put(record, "priority",
             CASE cat = "Praise" -> "Low"
               [] cat = "Complaint" -> "High"
               [] cat = "Spam" -> "Low"
               [] OTHER -> "Medium")

(***************************************************************************)
(* TicketCreatorAgent                                                      *)
(***************************************************************************)
\* The text as a string: its fragments, in this order, joined by blanks.
FragmentOrder ==
    << "hello", "CRASH", "sync", "slow", "error", "login fail",
       "Dark Mode", "integration", "feature", "love", "terrible",
       "click here" >>

Render(text) == Join(" ", SelectSeq(FragmentOrder, LAMBDA f : f \in text))

\* f"{index:04d}"
Pad4(n) ==
    IF n < 10 THEN "000" \o ToString(n)
    ELSE IF n < 100 THEN "00" \o ToString(n)
    ELSE IF n < 1000 THEN "0" \o ToString(n)
    ELSE ToString(n)

generate_ticket_id(index, category) ==
    LET prefix == CASE category = "Bug" -> "BUG"
                    [] category = "Feature Request" -> "FEAT"
                    [] category = "Praise" -> "PRS"
                    [] category = "Complaint" -> "CMP"
                    [] category = "Spam" -> "SPM"
                    [] OTHER -> "TKT"
    IN  prefix \o "-" \o Pad4(index)

\* str.title() on a theme name.
Title(theme) ==
    CASE theme = "dark mode" -> "Dark Mode"
      [] theme = "integration" -> "Integration"
      [] OTHER -> theme

\* A text has no "." and fewer than 60 characters: its first sentence is
\* the text, and no title is truncated.
generate_title(record) ==
    LET category == Get(record, "category", "Feedback")
        text == Render(Get(record, "text", {}))
    IN  CASE category = "Bug" ->
               LET severity == Get(Get(record, "bug_details", EmptyDict),
                                   "severity", "")
               IN  (IF severity # "" THEN "[" \o severity \o "] " ELSE "") \o text
          [] category = "Feature Request" ->
               LET fd == Get(record, "feature_details", EmptyDict)
                   theme == Get(fd, "theme", "")
                   desc == Render(Get(fd, "description", {}))
               IN  IF theme # "" /\ theme # "other"
                   THEN "Feature Request: " \o Title(theme)
                   ELSE IF desc # "" THEN "Feature Request: " \o desc
                   ELSE "Feature Request: User suggestion"
          [] category = "Praise" -> "Positive Feedback: User satisfaction report"
          [] category = "Complaint" -> "Complaint: " \o text
          [] category = "Spam" -> "Spam: Flagged content"
          [] OTHER -> category \o ": " \o text \o "..."

\* The parts _generate_description joins: the text and a section for each
\* details object the record holds.
generate_description(record) ==
    <<Render(Get(record, "text", {}))>>
    \o (IF "bug_details" \in DOMAIN record THEN <<"--- Bug Details ---">> ELSE <<>>)
    \o (IF "feature_details" \in DOMAIN record
        THEN <<"--- Feature Details ---">> ELSE <<>>)

\* The dict json.dumps serialises.
ExtractedMetadata(record) ==
    [k \in DOMAIN record \cap {"bug_details", "feature_details"} |-> record[k]]

create_ticket(record, index) ==
    LET category == Get(record, "category", "Unknown") IN
    [ticket_id |-> generate_ticket_id(index, category),
     title |-> generate_title(record),
     description |-> generate_description(record),
     category |-> category,
     priority |-> Get(record, "priority", "Medium"),
     source_id |-> Get(record, "record_id", ""),
     source_type |-> Get(record, "source_type", ""),
     confidence |-> Get(record, "confidence", 0),
     extracted_metadata |-> [json |-> ExtractedMetadata(record)]]

(***************************************************************************)
(* QualityCriticAgent                                                      *)
(***************************************************************************)
\* Mutant: a set for the Unknown category too.
EXPECTED_PRIORITIES_WithUnknown ==
    ("Bug" :> {"Critical", "High", "Medium"})
    @@ ("Feature Request" :> {"High", "Medium", "Low"})
    @@ ("Praise" :> {"Low"})
    @@ ("Complaint" :> {"High", "Medium"})
    @@ ("Spam" :> {"Low"})
    @@ ("Unknown" :> {"Medium"})

EXPECTED_PRIORITIES ==
    ("Bug" :> {"Critical", "High", "Medium"})
    @@ ("Feature Request" :> {"High", "Medium", "Low"})
    @@ ("Praise" :> {"Low"})
    @@ ("Complaint" :> {"High", "Medium"})
    @@ ("Spam" :> {"Low"})

REQUIRED_TICKET_FIELDS ==
    << "ticket_id", "title", "description", "category",
       "priority", "source_id", "source_type", "confidence" >>

\* The strings of the model that str.strip() empties.
Blanks == {"", " "}

\* `val is None or (isinstance(val, str) and not val.strip())`: a field the
\* ticket does not hold reads as None; the confidence is a number, never a
\* str; the description is blank if all the parts joined into it are.
IsMissing(ticket, field) ==
    \/ field \notin DOMAIN ticket
    \/ CASE field = "confidence" -> FALSE
         [] field = "description" ->
              \A k \in DOMAIN ticket.description : ticket.description[k] \in Blanks
         [] OTHER -> ticket[field] \in Blanks

\* Check 1.
missing_fields(ticket) ==
    LET missing == SelectSeq(REQUIRED_TICKET_FIELDS,
                             LAMBDA field : IsMissing(ticket, field))
    IN  [k \in DOMAIN missing |-> "Missing field: " \o missing[k]]

\* Check 2.
title_issues(ticket) ==
    LET title == Get(ticket, "title", "") IN
    (IF Len(title) < 5 THEN <<"Title too short">> ELSE <<>>)
    \o (IF Len(title) > 200 THEN <<"Title too long">> ELSE <<>>)

\* The thousandths n with n % 10 = 5 that f"{n/1000:.2f}" rounds up: the
\* binary float nearest to n/1000 lies above the decimal tie.
HalfUp ==
    { 5, 25, 35, 55, 65, 85, 95, 115, 135, 165, 195, 225, 255, 265, 275, 315,
      325, 335, 375, 385, 395, 405, 445, 455, 465, 505, 515, 525, 535, 545,
      555, 635, 645, 655, 665, 675, 685, 755, 765, 775, 785, 795, 805, 875,
      885, 895, 905, 915, 925, 935 }

\* f"{confidence:.2f}" for a confidence in thousandths.
Fmt2(n) ==
    LET h == IF n % 10 = 5
             THEN (IF n \in HalfUp THEN n \div 10 + 1 ELSE n \div 10)
             ELSE (n + 5) \div 10
    IN  ToString(h \div 100) \o "." \o ToString((h % 100) \div 10)
                             \o ToString(h % 10)

\* f"{self.confidence_threshold}"
ThresholdText == "0.6"

LowConfidenceIssue(confidence) ==
    "Low confidence: " \o Fmt2(confidence) \o " < threshold " \o ThresholdText

\* Mutant: the threshold itself counted as low.
confidence_issues_Inclusive(ticket) ==
    LET confidence == Get(ticket, "confidence", 0) IN
    IF confidence <= confidence_threshold
    THEN <<LowConfidenceIssue(confidence)>> ELSE <<>>

\* Check 3; the confidence of a ticket is a number.
confidence_issues(ticket) ==
    LET confidence == Get(ticket, "confidence", 0) IN
    IF confidence < confidence_threshold
    THEN <<LowConfidenceIssue(confidence)>> ELSE <<>>

\* The orders in which iterating a set can yield its elements.
Orders(S) ==
    {o \in [1..Cardinality(S) -> S] :
        \A a, b \in 1..Cardinality(S) : a # b => o[a] # o[b]}

\* repr() of a set of strings iterated in the given order; set() if empty.
SetRepr(order) ==
    IF order = <<>> THEN "set()"
    ELSE "{" \o Join(", ", [k \in DOMAIN order |-> "'" \o order[k] \o "'"]) \o "}"

PriorityIssue(priority, category, order) ==
    "Priority '" \o priority \o "' unexpected for category '" \o category
    \o "' (expected: " \o SetRepr(order) \o ")"

\* `expected and priority not in expected`
PriorityUnexpected(ticket) ==
    LET expected == Get(EXPECTED_PRIORITIES, Get(ticket, "category", ""), {})
    IN  expected # {} /\ Get(ticket, "priority", "") \notin expected

\* Check 4.  The message prints the expected set, and the order in which a
\* set of strings prints depends on the hash seed of the process: orders
\* gives it for every category whose set is printed.
priority_issues(ticket, orders) ==
    IF PriorityUnexpected(ticket)
    THEN <<PriorityIssue(Get(ticket, "priority", ""), ticket.category,
                         orders[ticket.category])>>
    ELSE <<>>

\* Mutant: check 5 made for High only.
spam_issues_OnlyHigh(ticket) ==
    IF Get(ticket, "category", "") = "Spam"
       /\ Get(ticket, "priority", "") = "High"
    THEN <<"Spam should not have high priority">> ELSE <<>>

\* Check 5.
spam_issues(ticket) ==
    IF Get(ticket, "category", "") = "Spam"
       /\ Get(ticket, "priority", "") \in {"Critical", "High"}
    THEN <<"Spam should not have high priority">> ELSE <<>>

\* Check 6.
praise_issues(ticket) ==
    IF Get(ticket, "category", "") = "Praise"
       /\ Get(ticket, "priority", "") \in {"Critical", "High"}
    THEN <<"Praise feedback should have Low priority">> ELSE <<>>

\* Mutant: a ticket that was reviewed before is flagged for it.
review_ticket_FlagsReviewed(ticket, orders) ==
    missing_fields(ticket) \o title_issues(ticket) \o confidence_issues(ticket)
    \o priority_issues(ticket, orders) \o spam_issues(ticket)
    \o praise_issues(ticket)
    \o (IF "quality_passed" \in DOMAIN ticket
        THEN <<"Ticket was reviewed before">> ELSE <<>>)

review_ticket(ticket, orders) ==
    missing_fields(ticket) \o title_issues(ticket) \o confidence_issues(ticket)
    \o priority_issues(ticket, orders) \o spam_issues(ticket)
    \o praise_issues(ticket)

\* Mutant: the gate lowers the priority of a flagged Spam ticket.
reviewed_Corrects(ticket, orders) ==
    LET issues == review_ticket(ticket, orders)
        fixed == IF Get(ticket, "category", "") = "Spam" /\ issues # <<>>
                 THEN Put(ticket, "priority", "Low") ELSE ticket
    IN  Put(Put(fixed, "quality_issues", issues), "quality_passed", issues = <<>>)

\* Mutant: a ticket with a single issue passes.
reviewed_PassedIfFew(ticket, orders) ==
    LET issues == review_ticket(ticket, orders) IN
    Put(Put(ticket, "quality_issues", issues), "quality_passed", Len(issues) <= 1)

\* The body of the loop of QualityCriticAgent.execute, for one ticket.
reviewed(ticket, orders) ==
    LET issues == review_ticket(ticket, orders) IN
    Put(Put(ticket, "quality_issues", issues), "quality_passed", issues = <<>>)

\* The categories whose expected set some message of the run prints, and
\* the print orders a run can have for them.
PrintedCategories(tks) ==
    {tks[k].category : k \in {k \in DOMAIN tks : PriorityUnexpected(tks[k])}}

SetOrders(cats) ==
    {o \in [cats -> UNION {Orders(EXPECTED_PRIORITIES[c]) : c \in cats}] :
        \A c \in cats : o[c] \in Orders(EXPECTED_PRIORITIES[c])}

(***************************************************************************)
(* core/metrics.py: compute_metrics.  The expected labels are the entries  *)
(* of the dict _load_expected returns, in file order, no record_id twice   *)
(* and none empty; an entry is reduced to its record_id and its expected   *)
(* category (the expected priority is loaded and never read).  Ratios are  *)
(* in ten-thousandths (the code rounds them to 4 decimals).  The report's  *)
(* processing_time_seconds, a reading of the clock, is left out.           *)
(***************************************************************************)
Label(id, category) == [record_id |-> id, category |-> category]

\* pred_map, reduced to the category: a later ticket of a source_id
\* replaces an earlier one.
pred_map(tks) ==
    LET sid(k) == Get(tks[k], "source_id", "")
        last(id) == MaxOf({k \in DOMAIN tks : sid(k) = id})
    IN  [id \in {sid(k) : k \in DOMAIN tks} |->
            Get(tks[last(id)], "category", "")]

\* sorted({predicted categories} | {expected categories})
categories(pm, labels) ==
    {pm[id] : id \in DOMAIN pm} \cup {labels[k].category : k \in DOMAIN labels}

\* d[k] = d.get(k, 0) + 1
Inc(d, k) == Put(d, k, Get(d, k, 0) + 1)

\* Mutant: a wrong prediction counted as a false positive only.
count_label_NoFalseNegative(acc, label, pm) ==
    LET exp_cat == label.category
        pred_cat == Get(pm, label.record_id, "")
    IN  IF pred_cat = ""
        THEN [acc EXCEPT !.fn = Inc(@, exp_cat), !.total = @ + 1]
        ELSE IF pred_cat = exp_cat
        THEN [acc EXCEPT !.total = @ + 1, !.correct = @ + 1,
                         !.tp = Inc(@, exp_cat)]
        ELSE [acc EXCEPT !.total = @ + 1, !.fp = Inc(@, pred_cat)]

\* One iteration of the loop over expected.items(): the counters after
\* the entry.
count_label(acc, label, pm) ==
    LET exp_cat == label.category
        pred_cat == Get(pm, label.record_id, "")
    IN  IF pred_cat = ""
        THEN [acc EXCEPT !.fn = Inc(@, exp_cat), !.total = @ + 1]
        ELSE IF pred_cat = exp_cat
        THEN [acc EXCEPT !.total = @ + 1, !.correct = @ + 1,
                         !.tp = Inc(@, exp_cat)]
        ELSE [acc EXCEPT !.total = @ + 1, !.fp = Inc(@, pred_cat),
                         !.fn = Inc(@, exp_cat)]

\* The loop over expected.items(), from the counters acc on.
RECURSIVE Tally(_, _, _)
Tally(labels, pm, acc) ==
    IF labels = <<>> THEN acc
    ELSE Tally(Tail(labels), pm, count_label(acc, Head(labels), pm))

\* round(n / d, 4) in ten-thousandths: to the nearest, an exact half to even.
Round4(n, d) ==
    LET q == (10000 * n) \div d
        r == (10000 * n) % d
    IN  IF 2 * r < d THEN q
        ELSE IF 2 * r > d THEN q + 1
        ELSE IF q % 2 = 0 THEN q ELSE q + 1

\* The per_category entry of a category with these counters.
category_report(tp, fp, fn) ==
    [precision |-> IF tp + fp # 0 THEN Round4(tp, tp + fp) ELSE 0,
     recall |-> IF tp + fn # 0 THEN Round4(tp, tp + fn) ELSE 0,
     \* 2 * precision * recall / (precision + recall), on the quotients
     \* tp / (tp + fp) and tp / (tp + fn)
     f1 |-> IF tp + fp # 0 /\ tp + fn # 0 /\ tp # 0
            THEN Round4(2 * tp * tp, tp * (tp + fn) + tp * (tp + fp))
            ELSE 0,
     true_positives |-> tp,
     false_positives |-> fp,
     false_negatives |-> fn]

\* Mutant: only the tickets that hold the field are counted.
Distribution_HeldOnly(tks, field) ==
    LET held == {k \in DOMAIN tks : field \in DOMAIN tks[k]} IN
    [v \in {tks[k][field] : k \in held} |->
        Cardinality({k \in held : tks[k][field] = v})]

\* tickets_per_category and priority_distribution: the tickets counted by
\* t.get(field, "Unknown").
Distribution(tks, field) ==
    LET value(k) == Get(tks[k], field, "Unknown") IN
    [v \in {value(k) : k \in DOMAIN tks} |->
        Cardinality({k \in DOMAIN tks : value(k) = v})]

\* round(sum(confidences) / len(confidences), 4) over the tickets that hold
\* a confidence (a number, in thousandths).
avg_confidence(tks) ==
    LET held == SelectSeq(tks, LAMBDA t : "confidence" \in DOMAIN t)
        total == SumSeq([k \in DOMAIN held |-> held[k].confidence])
    IN  IF held # <<>> THEN Round4(total, 1000 * Len(held)) ELSE 0

\* Mutant: the accuracy taken over the tickets, not the expected entries.
compute_metrics_AccuracyOverTickets(tks, labels) ==
    LET pm == pred_map(tks)
        cats == categories(pm, labels)
        zero == [c \in cats |-> 0]
        acc == Tally(labels, pm, [tp |-> zero, fp |-> zero, fn |-> zero,
                                  correct |-> 0, total |-> 0])
    IN  [overall_accuracy |-> IF Len(tks) # 0
                              THEN Round4(acc.correct, Len(tks)) ELSE 0,
         per_category |-> [c \in cats |->
                              category_report(acc.tp[c], acc.fp[c], acc.fn[c])],
         avg_confidence |-> avg_confidence(tks),
         total_tickets |-> Len(tks),
         total_expected |-> acc.total,
         correct_predictions |-> acc.correct,
         tickets_per_category |-> Distribution(tks, "category"),
         priority_distribution |-> Distribution(tks, "priority")]

compute_metrics(tks, labels) ==
    LET pm == pred_map(tks)
        cats == categories(pm, labels)
        zero == [c \in cats |-> 0]
        acc == Tally(labels, pm, [tp |-> zero, fp |-> zero, fn |-> zero,
                                  correct |-> 0, total |-> 0])
    IN  [overall_accuracy |-> IF acc.total # 0
                              THEN Round4(acc.correct, acc.total) ELSE 0,
         per_category |-> [c \in cats |->
                              category_report(acc.tp[c], acc.fp[c], acc.fn[c])],
         avg_confidence |-> avg_confidence(tks),
         total_tickets |-> Len(tks),
         total_expected |-> acc.total,
         correct_predictions |-> acc.correct,
         tickets_per_category |-> Distribution(tks, "category"),
         priority_distribution |-> Distribution(tks, "priority")]

(***************************************************************************)
(* PipelineOrchestrator.run                                                *)
(***************************************************************************)
Init ==
    /\ pc = "ingest"
    /\ ingested = <<>>
    /\ records = <<>>
    /\ classified = <<>>
    /\ i = 1
    /\ theme_counts = EmptyDict
    /\ max_count = 1
    /\ tickets = <<>>
    /\ log = <<>>
    /\ score = 0
    /\ level = ""
    /\ expected_labels = <<>>
    /\ metrics = EmptyDict

\* Step 1: csv_reader.execute, and the abort on an empty record list.
Ingest ==
    /\ pc = "ingest"
    /\ \E batch \in Batches :
         /\ records' = batch
         /\ ingested' = batch
         /\ IF batch = <<>>
            THEN /\ pc' = "aborted"
                 /\ log' = log \o <<Entry("CSVReaderAgent", "ingest", "ERROR", ""),
                                    Entry("Orchestrator", "pipeline_abort",
                                          "ERROR", "")>>
            ELSE /\ pc' = "classify"
                 /\ log' = log \o <<Entry("CSVReaderAgent", "ingest", "SUCCESS", ""),
                                    Entry("ClassifierAgent", "classify", "INFO", "")>>
    /\ i' = 1
    /\ UNCHANGED <<classified, theme_counts, max_count, tickets>>
    /\ UNCHANGED call_vars
    /\ UNCHANGED metric_vars

\* Step 2, one iteration of the loop of ClassifierAgent.execute: the record
\* (a dict of the input list) is updated in place and appended to the list
\* under construction.
ClassifyRecord ==
    /\ pc = "classify"
    /\ i <= Len(records)
    /\ \E fault \in Faults :
         LET record == records[i] IN
         IF fault = "none"
         THEN LET result == classify_single(record) IN
              /\ records' = [records EXCEPT ![i] = result]
              /\ classified' = Append(classified, result)
              /\ log' = Append(log, Entry("ClassifierAgent", "classify",
                                          ClassifyStatus(result), record.record_id))
         ELSE /\ records' = [records EXCEPT ![i] = ClassifyFailed(record)]
              /\ classified' = Append(classified, ClassifyFailed(record))
              /\ log' = Append(log, Entry("ClassifierAgent", "classify",
                                          "ERROR", record.record_id))
    /\ i' = i + 1
    /\ UNCHANGED <<pc, ingested, theme_counts, max_count, tickets>>
    /\ UNCHANGED call_vars
    /\ UNCHANGED metric_vars

\* ClassifierAgent.execute returns (its summary entry) and
\* BugAnalysisAgent.execute selects the bugs.
BeginBugAnalysis ==
    /\ pc = "classify"
    /\ i > Len(records)
    /\ pc' = "bug"
    /\ records' = classified
    /\ classified' = <<>>
    /\ i' = NextIndex(records', 1, "Bug")
    /\ log' = log \o <<Entry("ClassifierAgent", "summary", "SUCCESS", ""),
                       Entry("BugAnalysisAgent", "analyze", "INFO", "")>>
    /\ UNCHANGED <<ingested, theme_counts, max_count, tickets>>
    /\ UNCHANGED call_vars
    /\ UNCHANGED metric_vars

\* Mutant: a bug whose analysis raises ends the run.
AnalyzeBug_AbortsOnError ==
    /\ pc = "bug"
    /\ i <= Len(records)
    /\ \E fault \in Faults :
         LET record == records[i]
             id == Get(record, "record_id", "")
         IN  IF fault = "none"
             THEN /\ records' = [records EXCEPT ![i] = analyze_bug(record)]
                  /\ log' = Append(log, Entry("BugAnalysisAgent", "analyze",
                                              "SUCCESS", id))
                  /\ pc' = pc
                  /\ i' = NextIndex(records, i + 1, "Bug")
             ELSE /\ records' = records
                  /\ log' = Append(log, Entry("BugAnalysisAgent", "analyze",
                                              "ERROR", id))
                  /\ pc' = "aborted"
                  /\ i' = i
    /\ UNCHANGED <<ingested, classified, theme_counts, max_count, tickets>>
    /\ UNCHANGED call_vars
    /\ UNCHANGED metric_vars

\* Step 3, one iteration of the loop over the bugs.
AnalyzeBug ==
    /\ pc = "bug"
    /\ i <= Len(records)
    /\ \E fault \in Faults :
         LET record == records[i]
             id == Get(record, "record_id", "")
         IN  CASE fault = "none" ->
                    /\ records' = [records EXCEPT ![i] = analyze_bug(record)]
                    /\ log' = Append(log, Entry("BugAnalysisAgent", "analyze",
                                                "SUCCESS", id))
               [] fault = "before" ->
                    /\ records' = [records EXCEPT ![i] = BugFailed(record)]
                    /\ log' = Append(log, Entry("BugAnalysisAgent", "analyze",
                                                "ERROR", id))
               [] fault = "after" ->
                    /\ records' = [records EXCEPT
                                     ![i] = BugFailed(analyze_bug(record))]
                    /\ log' = Append(log, Entry("BugAnalysisAgent", "analyze",
                                                "ERROR", id))
    /\ i' = NextIndex(records, i + 1, "Bug")
    /\ UNCHANGED <<pc, ingested, classified, theme_counts, max_count, tickets>>
    /\ UNCHANGED call_vars
    /\ UNCHANGED metric_vars

\* Mutant: the theme table made from the first feature request only, the
\* others to be counted as they are scored.
BeginFeatureExtraction_CountsFirstOnly ==
    /\ pc = "bug"
    /\ i > Len(records)
    /\ pc' = "feature"
    /\ theme_counts' = count_themes(FirstN(Select(records, "Feature Request"), 1))
    /\ max_count' = MaxCount(theme_counts')
    /\ i' = NextIndex(records, 1, "Feature Request")
    /\ log' = Append(log, Entry("FeatureExtractorAgent", "extract", "INFO", ""))
    /\ UNCHANGED <<ingested, records, classified, tickets>>
    /\ UNCHANGED call_vars
    /\ UNCHANGED metric_vars

\* BugAnalysisAgent.execute returns; FeatureExtractorAgent.execute selects
\* the feature requests and makes its first pass, the theme table.
BeginFeatureExtraction ==
    /\ pc = "bug"
    /\ i > Len(records)
    /\ pc' = "feature"
    /\ theme_counts' = count_themes(Select(records, "Feature Request"))
    /\ max_count' = MaxCount(theme_counts')
    /\ i' = NextIndex(records, 1, "Feature Request")
    /\ log' = Append(log, Entry("FeatureExtractorAgent", "extract", "INFO", ""))
    /\ UNCHANGED <<ingested, records, classified, tickets>>
    /\ UNCHANGED call_vars
    /\ UNCHANGED metric_vars

\* Step 4, one iteration of the second pass.
AnalyzeFeature ==
    /\ pc = "feature"
    /\ i <= Len(records)
    /\ \E fault \in Faults :
         LET record == records[i]
             id == Get(record, "record_id", "")
         IN  IF fault = "none"
             THEN /\ records' = [records EXCEPT
                      ![i] = analyze_feature(record, theme_counts, max_count)]
                  /\ log' = Append(log, Entry("FeatureExtractorAgent", "extract",
                                              "SUCCESS", id))
             ELSE /\ records' = [records EXCEPT ![i] = FeatureFailed(record)]
                  /\ log' = Append(log, Entry("FeatureExtractorAgent", "extract",
                                              "ERROR", id))
    /\ i' = NextIndex(records, i + 1, "Feature Request")
    /\ UNCHANGED <<pc, ingested, classified, theme_counts, max_count, tickets>>
    /\ UNCHANGED call_vars
    /\ UNCHANGED metric_vars

\* FeatureExtractorAgent.execute returns; step 5 fills in the default
\* priorities; TicketCreatorAgent.execute starts.
AssignDefaultPriorities ==
    /\ pc = "feature"
    /\ i > Len(records)
    /\ records' = [k \in DOMAIN records |-> default_priority(records[k])]
    /\ pc' = "tickets"
    /\ i' = 1
    /\ log' = Append(log, Entry("TicketCreatorAgent", "create_tickets", "INFO", ""))
    /\ UNCHANGED <<ingested, classified, theme_counts, max_count, tickets>>
    /\ UNCHANGED call_vars
    /\ UNCHANGED metric_vars

\* Mutant: a ticket numbered by its place among the tickets created.
CreateTicket_NumbersTickets ==
    /\ pc = "tickets"
    /\ i <= Len(records)
    /\ \E fault \in Faults :
         LET record == records[i]
             id == Get(record, "record_id", "")
         IN  IF fault = "none"
             THEN /\ tickets' = Append(tickets,
                                       create_ticket(record, Len(tickets) + 1))
                  /\ log' = Append(log, Entry("TicketCreatorAgent", "create_ticket",
                                              "SUCCESS", id))
             ELSE /\ tickets' = tickets
                  /\ log' = Append(log, Entry("TicketCreatorAgent", "create_ticket",
                                              "ERROR", id))
    /\ i' = i + 1
    /\ UNCHANGED <<pc, ingested, records, classified, theme_counts, max_count>>
    /\ UNCHANGED call_vars
    /\ UNCHANGED metric_vars

\* Step 6, one iteration of the loop of TicketCreatorAgent.execute.
CreateTicket ==
    /\ pc = "tickets"
    /\ i <= Len(records)
    /\ \E fault \in Faults :
         LET record == records[i]
             id == Get(record, "record_id", "")
         IN  IF fault = "none"
             THEN /\ tickets' = Append(tickets, create_ticket(record, i))
                  /\ log' = Append(log, Entry("TicketCreatorAgent", "create_ticket",
                                              "SUCCESS", id))
             ELSE /\ tickets' = tickets
                  /\ log' = Append(log, Entry("TicketCreatorAgent", "create_ticket",
                                              "ERROR", id))
    /\ i' = i + 1
    /\ UNCHANGED <<pc, ingested, records, classified, theme_counts, max_count>>
    /\ UNCHANGED call_vars
    /\ UNCHANGED metric_vars

\* TicketCreatorAgent.execute returns the tickets.
TicketsCreated ==
    /\ pc = "tickets"
    /\ i > Len(records)
    /\ pc' = "quality"
    /\ i' = 1
    /\ log' = Append(log, Entry("TicketCreatorAgent", "create_tickets",
                                "SUCCESS", ""))
    /\ UNCHANGED <<ingested, records, classified, theme_counts, max_count, tickets>>
    /\ UNCHANGED call_vars
    /\ UNCHANGED metric_vars

\* Step 7: QualityCriticAgent.execute, which annotates every ticket in
\* place and logs a WARNING or SUCCESS entry for each.
QualityReview ==
    /\ pc = "quality"
    /\ \E orders \in SetOrders(PrintedCategories(tickets)) :
         /\ tickets' = [k \in DOMAIN tickets |-> reviewed(tickets[k], orders)]
         /\ log' = log
                    \o <<Entry("QualityCriticAgent", "review", "INFO", "")>>
                    \o [k \in DOMAIN tickets |->
                          Entry("QualityCriticAgent", "review",
                                IF tickets'[k].quality_passed
                                THEN "SUCCESS" ELSE "WARNING",
                                Get(tickets[k], "ticket_id", ""))]
                    \o <<Entry("QualityCriticAgent", "summary", "SUCCESS", "")>>
    /\ pc' = "metrics"
    /\ UNCHANGED <<ingested, records, classified, i, theme_counts, max_count>>
    /\ UNCHANGED call_vars
    /\ UNCHANGED metric_vars

\* Steps 2 to 5 of run() on a batch when nothing raises: the records the
\* ticket creator is given.
run_records(batch) ==
    LET classified_ == [k \in DOMAIN batch |-> classify_single(batch[k])]
        analyzed == [k \in DOMAIN batch |->
                        IF classified_[k].category = "Bug"
                        THEN analyze_bug(classified_[k]) ELSE classified_[k]]
        counts == count_themes(Select(analyzed, "Feature Request"))
        maxc == MaxCount(counts)
        extracted == [k \in DOMAIN batch |->
                         IF analyzed[k].category = "Feature Request"
                         THEN analyze_feature(analyzed[k], counts, maxc)
                         ELSE analyzed[k]]
    IN  [k \in DOMAIN batch |-> default_priority(extracted[k])]

\* Steps 6 and 7 on these records when nothing raises: the reviewed tickets.
run_tickets(batch) ==
    LET recs == run_records(batch)
        created == [k \in DOMAIN recs |-> create_ticket(recs[k], k)]
        orders == CHOOSE o \in SetOrders(PrintedCategories(created)) : TRUE
    IN  [k \in DOMAIN created |-> reviewed(created[k], orders)]

\* What the expected-classifications file may hold when step 8 reads it:
\* nothing (the file is absent or empty), or labels for three records.
ExpectedFiles ==
    { <<>>,
      << Label(RecordId(1), "Bug"), Label(RecordId(2), "Feature Request"),
         Label(RecordId(3), "Praise") >> }

\* Steps 8 and 9 and the return of run(): the metrics are computed from the
\* reviewed tickets and the expected labels, and the completion is logged.
ComputeMetrics ==
    /\ pc = "metrics"
    /\ \E labels \in ExpectedFiles :
         /\ expected_labels' = labels
         /\ metrics' = compute_metrics(tickets, labels)
    /\ log' = Append(log, Entry("Orchestrator", "pipeline_complete",
                                "SUCCESS", ""))
    /\ pc' = "done"
    /\ UNCHANGED <<ingested, records, classified, i, theme_counts, max_count,
                   tickets>>
    /\ UNCHANGED call_vars

Next ==
    \/ Ingest
    \/ ClassifyRecord
    \/ BeginBugAnalysis
    \/ AnalyzeBug
    \/ BeginFeatureExtraction
    \/ AnalyzeFeature
    \/ AssignDefaultPriorities
    \/ CreateTicket
    \/ TicketsCreated
    \/ QualityReview
    \/ ComputeMetrics

Spec == Init /\ [][Next]_vars

\* run() is sequential code: a step that can be taken is taken.
SpecFair == Spec /\ WF_vars(Next)

(***************************************************************************)
(* FeatureExtractorAgent._score_to_priority called on its own, with any    *)
(* demand score from a little below 0.0 to a little above 1.0.             *)
(***************************************************************************)
ScoreMargin == 20    \* thousandths outside [0.0, 1.0] a direct call goes

DemandScores == (0 - ScoreMargin)..(1000 + ScoreMargin)

InitScore ==
    /\ pc = "score"
    /\ score \in DemandScores
    /\ level = ""
    /\ ingested = <<>>
    /\ records = <<>>
    /\ classified = <<>>
    /\ i = 1
    /\ theme_counts = EmptyDict
    /\ max_count = 1
    /\ tickets = <<>>
    /\ log = <<>>
    /\ expected_labels = <<>>
    /\ metrics = EmptyDict

ScoreToPriority ==
    /\ pc = "score"
    /\ level' = score_to_priority(score)
    /\ pc' = "scored"
    /\ UNCHANGED <<score, ingested, records, classified, i, theme_counts,
                   max_count, tickets, log>>
    /\ UNCHANGED metric_vars

SpecScore == InitScore /\ [][ScoreToPriority]_vars

(***************************************************************************)
(* QualityCriticAgent.execute called on its own, on tickets of any         *)
(* category, priority, confidence and title, complete or not.              *)
(***************************************************************************)
MaxTickets == 2     \* tickets in a list drawn from TicketPool

\* A title of 200 characters.
LongTitle ==
    LET ten == "xxxxxxxxxx"
        fifty == ten \o ten \o ten \o ten \o ten
    IN  fifty \o fifty \o fifty \o fifty

\* Titles of 3, 22, 1 (blank), 200 and 201 characters.
GateTitles ==
    {"Bug", "Login crashes on start", " ", LongTitle, LongTitle \o "x"}

GateCategories ==
    {"Bug", "Feature Request", "Praise", "Complaint", "Spam", "Unknown", ""}

GatePriorities == {"Critical", "High", "Medium", "Low", ""}

GateConfidences == {0, 300, 595, 599, 600, 850, 1000}

Ticket(category, priority, confidence, title) ==
    [ticket_id |-> generate_ticket_id(1, category),
     title |-> title,
     description |-> <<"The app crashes on startup.">>,
     category |-> category,
     priority |-> priority,
     source_id |-> "R001",
     source_type |-> "app_review",
     confidence |-> confidence]

\* A ticket that does not hold the field.
Without(ticket, field) ==
    [x \in DOMAIN ticket \ {field} |-> ticket[x]]

AnyTicket ==
    {Ticket(c, p, n, t) : c \in GateCategories, p \in GatePriorities,
                          n \in GateConfidences, t \in GateTitles}
    \cup {Without(Ticket("Bug", "High", 850, "Login crashes on start"), f) :
             f \in Range(REQUIRED_TICKET_FIELDS)}
    \cup {Without(Ticket("Spam", "High", 850, "Spam: Flagged content"), f) :
             f \in {"category", "priority"}}

\* The tickets lists of several tickets are made of.
TicketPool ==
    { Ticket("Bug", "Critical", 850, "Login crashes on start"),
      Ticket("Bug", "Low", 300, "Login crashes on start"),
      Ticket("Bug", "Medium", 300, "Possible bug report"),
      Ticket("Spam", "High", 900, "Spam: Flagged content"),
      Ticket("Praise", "Critical", 1000, "Positive Feedback: User satisfaction report"),
      Ticket("Unknown", "Critical", 600, "Bug") }

TicketLists ==
    [1..1 -> AnyTicket] \cup UNION {[1..n -> TicketPool] : n \in 0..MaxTickets}

InitGate ==
    /\ pc = "quality"
    /\ tickets \in TicketLists
    /\ ingested = <<>>
    /\ records = <<>>
    /\ classified = <<>>
    /\ i = 1
    /\ theme_counts = EmptyDict
    /\ max_count = 1
    /\ log = <<>>
    /\ score = 0
    /\ level = ""
    /\ expected_labels = <<>>
    /\ metrics = EmptyDict

\* QualityCriticAgent.execute called again, on the list it returned.
QualityReviewAgain ==
    /\ pc = "metrics"
    /\ \E orders \in SetOrders(PrintedCategories(tickets)) :
         /\ tickets' = [k \in DOMAIN tickets |-> reviewed(tickets[k], orders)]
         /\ log' = log
                    \o <<Entry("QualityCriticAgent", "review", "INFO", "")>>
                    \o [k \in DOMAIN tickets |->
                          Entry("QualityCriticAgent", "review",
                                IF tickets'[k].quality_passed
                                THEN "SUCCESS" ELSE "WARNING",
                                Get(tickets[k], "ticket_id", ""))]
                    \o <<Entry("QualityCriticAgent", "summary", "SUCCESS", "")>>
    /\ pc' = "reviewed again"
    /\ UNCHANGED <<ingested, records, classified, i, theme_counts, max_count>>
    /\ UNCHANGED call_vars
    /\ UNCHANGED metric_vars

SpecGate == InitGate /\ [][QualityReview \/ QualityReviewAgain]_vars

(***************************************************************************)
(* compute_metrics called on its own, on any ticket list and any expected  *)
(* labels: tickets that share a source_id, tickets without a category, a   *)
(* source_id, a priority or a confidence, labels of records that have no   *)
(* ticket.                                                                 *)
(***************************************************************************)
MaxLabels == 3          \* entries of the expected labels
MaxMetricTickets == 2   \* tickets in a list drawn from MetricTickets

MetricTicket(source_id, category, priority, confidence) ==
    [Ticket(category, priority, confidence, "Login crashes on start")
        EXCEPT !.source_id = source_id]

MetricTickets ==
    { MetricTicket(RecordId(1), "Bug", "High", 850),
      MetricTicket(RecordId(1), "Praise", "Low", 1000),
      MetricTicket(RecordId(2), "Bug", "Critical", 333),
      MetricTicket(RecordId(2), "", "Medium", 600),
      MetricTicket(RecordId(3), "Praise", "Low", 667),
      MetricTicket("R9", "Bug", "Medium", 500),
      Without(MetricTicket(RecordId(1), "Bug", "High", 850), "category"),
      Without(MetricTicket(RecordId(2), "Bug", "High", 850), "source_id"),
      Without(MetricTicket(RecordId(3), "Bug", "High", 850), "priority"),
      Without(MetricTicket(RecordId(3), "Praise", "Low", 850), "confidence") }

MetricTicketLists == UNION {[1..n -> MetricTickets] : n \in 0..MaxMetricTickets}

LabelCategories == {"Bug", "Praise"}

\* The label lists: up to MaxLabels entries, no record_id twice, the
\* records in the order of their numbers or in the reverse order.
LabelLists ==
    LET ids == 1..MaxLabels
        lists == UNION {[1..n -> ids \X LabelCategories] : n \in 0..MaxLabels}
        sorted == {l \in lists :
                     \/ \A a, b \in DOMAIN l : a < b => l[a][1] < l[b][1]
                     \/ \A a, b \in DOMAIN l : a < b => l[a][1] > l[b][1]}
    IN  {[k \in DOMAIN l |-> Label(RecordId(l[k][1]), l[k][2])] : l \in sorted}

InitMetrics ==
    /\ pc = "compute"
    /\ tickets \in MetricTicketLists
    /\ expected_labels \in LabelLists
    /\ metrics = EmptyDict
    /\ ingested = <<>>
    /\ records = <<>>
    /\ classified = <<>>
    /\ i = 1
    /\ theme_counts = EmptyDict
    /\ max_count = 1
    /\ log = <<>>
    /\ score = 0
    /\ level = ""

CallComputeMetrics ==
    /\ pc = "compute"
    /\ metrics' = compute_metrics(tickets, expected_labels)
    /\ pc' = "computed"
    /\ UNCHANGED <<expected_labels, ingested, records, classified, i,
                   theme_counts, max_count, tickets, log>>
    /\ UNCHANGED call_vars

SpecMetrics == InitMetrics /\ [][CallComputeMetrics]_vars

(***************************************************************************)
(* Properties                                                              *)
(***************************************************************************)
ValidCategories ==
    {"Bug", "Feature Request", "Praise", "Complaint", "Spam", "Unknown"}

ValidPriorities == {"Critical", "High", "Medium", "Low"}

\* The log holds an ERROR entry of the agent for the record.
Errors(agent, id) ==
    \E k \in DOMAIN log :
        log[k].agent = agent /\ log[k].status = "ERROR" /\ log[k].record_id = id

\* While the classifier runs (its last state holds its whole output): the
\* records it has visited, and those among them whose classification
\* raised nothing.
Classified == IF pc = "classify" THEN 1..(i - 1) ELSE {}

ClassifiedOk ==
    {k \in Classified : ~Errors("ClassifierAgent", records[k].record_id)}

AllZero(scores) == \A c \in DOMAIN scores : scores[c] = 0

SumOfScores(scores) ==
    SumSeq([k \in DOMAIN CategoryOrder |-> scores[CategoryOrder[k]]])

\* The text matches no keyword of any category.
NoKeyword(text) ==
    \A c \in DOMAIN keyword_weights : \A j \in DOMAIN keyword_weights[c] :
        ~Contains(LowerText(text), keyword_weights[c][j][1])

AfterBugStage == pc \in {"feature", "tickets", "quality"}

\* The feature stage has visited every feature request and is about to
\* return; no later step changes a feature request.
AfterFeatureStage == pc = "feature" /\ i > Len(records)

\* C1: every ticket has a category of the closed set and a priority of the
\* closed set, and every record that reaches ticket assembly holds a
\* category field and a priority field with such values.
C1_CategoryAndPriorityValid ==
    /\ \A k \in DOMAIN tickets :
          /\ tickets[k].category \in ValidCategories
          /\ tickets[k].priority \in ValidPriorities
    /\ pc \in {"tickets", "quality"} =>
          \A k \in DOMAIN records :
              /\ {"category", "priority"} \subseteq DOMAIN records[k]
              /\ records[k].category \in ValidCategories
              /\ records[k].priority \in ValidPriorities

C1_Witness ==
    /\ pc = "quality"
    /\ Len(tickets) = 2
    /\ tickets[1].category = "Bug" /\ tickets[1].priority = "Critical"
    /\ tickets[2].category = "Unknown" /\ tickets[2].priority = "Medium"

\* C2: when the ticket creator has returned, there is one ticket per ingested
\* record, in record order, each with its record's id as source_id, also
\* when a stage raised for some record.
C2_OneTicketPerRecord ==
    pc = "quality" =>
        /\ Len(tickets) = Len(ingested)
        /\ \A k \in DOMAIN tickets : tickets[k].source_id = ingested[k].record_id

\* C3: the classifier visits every record and returns a list of the same
\* length and order as its input; a record whose classification raised is
\* Unknown with confidence 0.0, the others hold a category of the table.
ClassifierOutcome(r) ==
    /\ "category" \in DOMAIN r
    /\ Errors("ClassifierAgent", r.record_id) =>
          r.category = "Unknown" /\ Get(r, "confidence", -1) = 0
    /\ ~Errors("ClassifierAgent", r.record_id) =>
          r.category \in Range(CategoryOrder)

C3_ClassifierLosesNoRecord ==
    /\ pc = "classify" =>
          /\ Len(classified) = i - 1
          /\ \A k \in DOMAIN classified :
                /\ classified[k].record_id = ingested[k].record_id
                /\ classified[k].text = ingested[k].text
                /\ ClassifierOutcome(classified[k])
    /\ pc \in {"bug", "feature", "tickets", "quality"} =>
          /\ Len(records) = Len(ingested)
          /\ \A k \in DOMAIN records :
                /\ records[k].record_id = ingested[k].record_id
                /\ records[k].text = ingested[k].text
                /\ ClassifierOutcome(records[k])

C3_Witness ==
    /\ pc = "bug"
    /\ Len(records) = 2
    /\ Errors("ClassifierAgent", records[1].record_id)
    /\ records[1].category = "Unknown"
    /\ ~Errors("ClassifierAgent", records[2].record_id)
    /\ records[2].category = "Bug"

\* C4: every confidence the classifier writes, and every ticket's, lies in
\* [0.0, 1.0].
C4_ConfidenceInUnitInterval ==
    /\ \A k \in DOMAIN records :
          "confidence" \in DOMAIN records[k] => records[k].confidence \in 0..1000
    /\ \A k \in DOMAIN classified : classified[k].confidence \in 0..1000
    /\ \A k \in DOMAIN tickets : tickets[k].confidence \in 0..1000

C4_Witness ==
    /\ pc = "bug"
    /\ \E j \in DOMAIN records : records[j].confidence = 0
    /\ \E k \in DOMAIN records : records[k].confidence = 300

\* C5: a record classified without an exception gets Complaint, 0.3 and the
\* fixed rationale if all its scores, rating boost included, are zero, and
\* does not get the fixed rationale otherwise.
C5_DefaultIffAllScoresZero ==
    \A k \in ClassifiedOk :
        LET r == records[k] IN
        IF AllZero(Scores(r))
        THEN /\ r.category = "Complaint"
             /\ r.confidence = 300
             /\ r.reasoning = DefaultReasoning
        ELSE r.reasoning # DefaultReasoning

C5_Witness ==
    \E k \in ClassifiedOk :
        /\ AllZero(Scores(records[k]))
        /\ RatingOf(records[k]) = "3"
        /\ records[k].reasoning = DefaultReasoning

\* C6, as claimed: a record whose text matches no keyword gets Complaint
\* and 0.3 whatever its rating.
C6_NoKeywordAlwaysDefault ==
    \A k \in ClassifiedOk :
        NoKeyword(records[k].text) =>
            records[k].category = "Complaint" /\ records[k].confidence = 300

\* C6, amended: a record whose text matches no keyword gets Complaint and
\* 0.3 if its rating is absent, empty, 3 or not numeric; Praise and 1.0 if
\* the rating is 4 or 5; Complaint and 0.6 if it is 1 or 2.
C6_NoKeywordByRating ==
    \A k \in ClassifiedOk :
        LET r == records[k] IN
        NoKeyword(r.text) =>
            CASE RatingOf(r) \in {"4", "5"} ->
                   r.category = "Praise" /\ r.confidence = 1000
              [] RatingOf(r) \in {"1", "2"} ->
                   r.category = "Complaint" /\ r.confidence = 600
              [] OTHER ->
                   r.category = "Complaint" /\ r.confidence = 300

C6_Witness ==
    \E k \in ClassifiedOk :
        /\ NoKeyword(records[k].text)
        /\ RatingOf(records[k]) = "4"
        /\ records[k].category = "Praise"

\* C7: the scores of a record are its keyword scores plus 0.5 on Praise for
\* a rating of 4 or 5, plus 0.2 on Bug and 0.3 on Complaint for a rating of
\* 1 or 2, and nothing for any other rating (absent, empty, 3, not numeric);
\* the rationale shows these scores, and a record with a rating that is not
\* numeric is classified as the same record without its rating.
ExpectedBoost(rating, c) ==
    CASE rating \in {"4", "5"} /\ c = "Praise" -> 50
      [] rating \in {"1", "2"} /\ c = "Bug" -> 20
      [] rating \in {"1", "2"} /\ c = "Complaint" -> 30
      [] OTHER -> 0

WithoutRating(r) ==
    [r EXCEPT !.metadata =
        [x \in DOMAIN r.metadata \ {"rating"} |-> r.metadata[x]]]

C7_RatingHandling ==
    \A k \in ClassifiedOk :
        LET r == records[k]
            keyword == KeywordScores(LowerText(r.text))
            expected == [c \in DOMAIN keyword |->
                            keyword[c] + ExpectedBoost(RatingOf(r), c)]
        IN  /\ Scores(r) = expected
            /\ r.category # "Unknown"
            /\ ~AllZero(expected) =>
                  /\ r.reasoning.total = SumOfScores(expected)
                  /\ r.reasoning.score = expected[r.category]
            /\ RatingOf(r) = "abc" =>
                  /\ r.category = Classification(WithoutRating(r)).category
                  /\ r.confidence = Classification(WithoutRating(r)).confidence

C7_Witness ==
    \E k \in ClassifiedOk :
        /\ RatingOf(records[k]) = "2"
        /\ records[k].category = "Bug"
        /\ records[k].reasoning.score = 110
        /\ records[k].reasoning.total = 140

\* The category of r has the largest score, and every category before it in
\* table order a strictly smaller one.
WinnerIsFirstMax(r, scores) ==
    \E p \in DOMAIN CategoryOrder :
        /\ CategoryOrder[p] = r.category
        /\ \A q \in DOMAIN CategoryOrder :
              scores[CategoryOrder[q]] <= scores[r.category]
        /\ \A q \in 1..(p - 1) :
              scores[CategoryOrder[q]] < scores[r.category]

OnlyWinnerNonZero(r, scores) ==
    \A c \in DOMAIN scores : c # r.category => scores[c] = 0

\* C8, as claimed: with a non-zero score, the category is the first of those
\* with the largest score and the confidence is exactly the winning score
\* over the sum of the scores.
C8_WinnerAndExactQuotient ==
    \A k \in ClassifiedOk :
        LET r == records[k]
            scores == Scores(r)
        IN  ~AllZero(scores) =>
              /\ WinnerIsFirstMax(r, scores)
              /\ r.confidence * SumOfScores(scores) = 1000 * scores[r.category]
              /\ r.confidence = 1000 <=> OnlyWinnerNonZero(r, scores)

\* C8, amended: ... and the confidence is the winning score over the sum of
\* the scores rounded to 3 decimals (within half a thousandth of it); it is
\* 1.0 exactly when only the winner has a non-zero score.
C8_WinnerAndRoundedQuotient ==
    \A k \in ClassifiedOk :
        LET r == records[k]
            scores == Scores(r)
            diff == 1000 * scores[r.category] - r.confidence * SumOfScores(scores)
        IN  ~AllZero(scores) =>
              /\ WinnerIsFirstMax(r, scores)
              /\ 2 * diff <= SumOfScores(scores)
              /\ -2 * diff <= SumOfScores(scores)
              /\ r.confidence = 1000 <=> OnlyWinnerNonZero(r, scores)

C8_Witness ==
    \E k \in ClassifiedOk :
        /\ Scores(records[k])["Bug"] = 90
        /\ Scores(records[k])["Spam"] = 90
        /\ records[k].category = "Bug"
        /\ records[k].confidence = 500

\* C9: after the bug stage, the severity stored for a Bug record is Critical
\* if its text holds a Critical keyword, else High if it holds a High
\* keyword, else Medium, and the record's priority is that stored severity.
HasSeverityKeyword(text, severity) ==
    \E j \in DOMAIN bug_severity_keywords[severity] :
        Contains(LowerText(text), bug_severity_keywords[severity][j])

ExpectedSeverity(text) ==
    IF HasSeverityKeyword(text, "Critical") THEN "Critical"
    ELSE IF HasSeverityKeyword(text, "High") THEN "High"
    ELSE "Medium"

C9_PriorityIsStoredSeverity ==
    AfterBugStage =>
        \A k \in Indexes(records, "Bug") :
            LET r == records[k]
                details == Get(r, "bug_details", EmptyDict)
            IN  "severity" \in DOMAIN details =>
                  /\ details.severity = ExpectedSeverity(r.text)
                  /\ Get(r, "priority", "") = details.severity

\* C10: when the feature stage returns, if some feature request matches a theme,
\* every feature request whose stored theme is one matched by the most
\* feature requests of the batch has demand_score 1.0 and priority High.
FeatureRequests == Indexes(records, "Feature Request")

MostFrequentThemes ==
    LET texts == [k \in FeatureRequests |-> LowerText(records[k].text)]
        frequency == [t \in DOMAIN FEATURE_THEMES |->
                        Cardinality({k \in FeatureRequests :
                                        ThemeMatches(texts[k], t)})]
    IN  {FEATURE_THEMES[t][1] :
            t \in {t \in DOMAIN FEATURE_THEMES :
                     /\ frequency[t] > 0
                     /\ \A u \in DOMAIN FEATURE_THEMES :
                           frequency[u] <= frequency[t]}}

C10_MostFrequentThemeFullDemand ==
    (AfterFeatureStage /\ FeatureRequests # {}) =>
        LET top == MostFrequentThemes IN
        \A k \in FeatureRequests :
            LET details == Get(records[k], "feature_details", EmptyDict) IN
            ("theme" \in DOMAIN details /\ details.theme \in top) =>
                details.demand_score = 1000 /\ records[k].priority = "High"

C10_Witness ==
    /\ AfterFeatureStage
    /\ \E j, k \in FeatureRequests :
          /\ Get(Get(records[j], "feature_details", EmptyDict), "theme", "") = "dark mode"
          /\ records[j].feature_details.demand_score = 500
          /\ Get(Get(records[k], "feature_details", EmptyDict), "theme", "") = "integration"
          /\ records[k].feature_details.demand_score = 1000
          /\ records[k].priority = "High"

\* C11: the level _score_to_priority returns is High if and only if the
\* score is at least 0.7, Medium if and only if it is at least 0.4 and below
\* 0.7, Low if and only if it is below 0.4; it is always one of the three.
C11_PriorityByThreshold ==
    pc = "scored" =>
        /\ level \in {"High", "Medium", "Low"}
        /\ level = "High" <=> score >= 700
        /\ level = "Medium" <=> (400 <= score /\ score < 700)
        /\ level = "Low" <=> score < 400

C11_Witness == pc = "scored" /\ score = 700 /\ level = "High"

\* The feature requests whose analysis raised nothing and whose text matches
\* no theme, and the largest number of feature requests of the batch that
\* match one theme (1 if no request matches any).
UnmatchedFeatureRequests ==
    {k \in FeatureRequests :
        /\ ~Errors("FeatureExtractorAgent", records[k].record_id)
        /\ \A t \in DOMAIN FEATURE_THEMES :
              ~ThemeMatches(LowerText(records[k].text), t)}

MaxThemeFrequency ==
    LET frequency == [t \in DOMAIN FEATURE_THEMES |->
                        Cardinality({k \in FeatureRequests :
                            ThemeMatches(LowerText(records[k].text), t)})]
        largest == CHOOSE n \in Range(frequency) :
                       \A m \in Range(frequency) : m <= n
    IN  IF largest = 0 THEN 1 ELSE largest

C14_DefaultPriorityOnlyFills ==
    [][(pc = "feature" /\ pc' = "tickets") =>
          /\ Len(records') = Len(records)
          /\ \A k \in DOMAIN records :
                IF "priority" \in DOMAIN records[k]
                THEN records'[k].priority = records[k].priority
                ELSE records'[k].priority =
                       CASE records[k].category = "Praise" -> "Low"
                         [] records[k].category = "Complaint" -> "High"
                         [] records[k].category = "Spam" -> "Low"
                         [] OTHER -> "Medium"]_vars

C14_Witness ==
    /\ pc = "tickets"
    /\ \E j, k \in DOMAIN records :
          /\ records[j].category = "Feature Request"
          /\ Errors("FeatureExtractorAgent", records[j].record_id)
          /\ records[j].priority = "Medium"
          /\ records[k].category = "Complaint"
          /\ records[k].priority = "High"

\* C15: when both enrichment stages have run, every Bug and Feature Request
\* record holds a priority and a details object (a failure stopped neither
\* stage), and a record whose analysis raised has priority Medium and an
\* empty details object.
C15_FailedEnrichmentIsMediumAndEmpty ==
    AfterFeatureStage =>
        \A k \in DOMAIN records :
            LET r == records[k] IN
            /\ r.category = "Bug" =>
                  /\ {"priority", "bug_details"} \subseteq DOMAIN r
                  /\ Errors("BugAnalysisAgent", r.record_id) =>
                        r.priority = "Medium" /\ DOMAIN r.bug_details = {}
            /\ r.category = "Feature Request" =>
                  /\ {"priority", "feature_details"} \subseteq DOMAIN r
                  /\ Errors("FeatureExtractorAgent", r.record_id) =>
                        r.priority = "Medium" /\ DOMAIN r.feature_details = {}

\* QualityCriticAgent.execute has returned.
Reviewed == pc = "metrics"

QualityFields == {"quality_issues", "quality_passed"}

\* C16: the quality review returns the tickets it was given, in the same
\* number and order, every field they held unchanged (quality fields
\* aside), and adds nothing but quality_issues and quality_passed.
C16_GateIsAdvisoryOnly ==
    [][(pc = "quality" /\ pc' = "metrics") =>
          /\ Len(tickets') = Len(tickets)
          /\ \A k \in DOMAIN tickets :
                /\ DOMAIN tickets'[k] = DOMAIN tickets[k] \cup QualityFields
                /\ \A f \in DOMAIN tickets[k] \ QualityFields :
                      tickets'[k][f] = tickets[k][f]]_vars

C16_Witness ==
    /\ Reviewed
    /\ Len(tickets) = 2
    /\ tickets[1].category = "Spam" /\ tickets[1].priority = "High"
    /\ ~tickets[1].quality_passed
    /\ tickets[2].category = "Bug" /\ tickets[2].quality_passed

\* C17: after the quality review, a ticket has quality_passed true if and
\* only if its quality_issues list is empty.
C17_PassedIffNoIssues ==
    Reviewed =>
        \A k \in DOMAIN tickets :
            tickets[k].quality_passed <=> tickets[k].quality_issues = <<>>

C17_Witness ==
    /\ Reviewed
    /\ \E j, k \in DOMAIN tickets :
          /\ tickets[j].quality_passed /\ tickets[j].quality_issues = <<>>
          /\ ~tickets[k].quality_passed /\ Len(tickets[k].quality_issues) = 1

\* The expected priorities of a category, as the specification lists them.
ClaimedExpected(category) ==
    CASE category = "Bug" -> {"Critical", "High", "Medium"}
      [] category = "Feature Request" -> {"High", "Medium", "Low"}
      [] category = "Praise" -> {"Low"}
      [] category = "Complaint" -> {"High", "Medium"}
      [] category = "Spam" -> {"Low"}
      [] OTHER -> {}

\* The issue is a priority-unexpected message about the ticket, whatever
\* set it prints.
IsPriorityIssue(issue, ticket) ==
    \E S \in SUBSET ValidPriorities : \E o \in Orders(S) :
        issue = PriorityIssue(Get(ticket, "priority", ""),
                              Get(ticket, "category", ""), o)

HasPriorityIssue(ticket) ==
    \E a \in DOMAIN ticket.quality_issues :
        IsPriorityIssue(ticket.quality_issues[a], ticket)

\* C18: after the quality review, a ticket has a priority-unexpected issue
\* if and only if its category is Bug, Feature Request, Praise, Complaint
\* or Spam and its priority is outside the expected set of the category; a
\* ticket of another category has none.
C18_PriorityIssueIffOutsideExpected ==
    Reviewed =>
        \A k \in DOMAIN tickets :
            LET t == tickets[k]
                expected == ClaimedExpected(Get(t, "category", ""))
            IN  HasPriorityIssue(t) <=>
                  (expected # {} /\ Get(t, "priority", "") \notin expected)

C18_Witness ==
    /\ Reviewed
    /\ \E j, k \in DOMAIN tickets :
          /\ Get(tickets[j], "category", "") = "Unknown" /\ Get(tickets[j], "priority", "") = "Critical"
          /\ ~HasPriorityIssue(tickets[j])
          /\ Get(tickets[k], "category", "") = "Bug" /\ Get(tickets[k], "priority", "") = "Low"
          /\ HasPriorityIssue(tickets[k])

\* C19: after the quality review, a Spam ticket with priority Critical or
\* High has failed, with the issue "Spam should not have high priority"
\* after its priority-unexpected issue; a Praise ticket with priority
\* Critical or High has failed too.
C19_SpamAndPraiseNeverHigh ==
    Reviewed =>
        \A k \in DOMAIN tickets :
            LET t == tickets[k]
                issues == t.quality_issues
                high == Get(t, "priority", "") \in {"Critical", "High"}
            IN  /\ (Get(t, "category", "") = "Spam" /\ high) =>
                      /\ ~t.quality_passed
                      /\ \E a, b \in DOMAIN issues :
                            /\ a < b
                            /\ IsPriorityIssue(issues[a], t)
                            /\ issues[b] = "Spam should not have high priority"
                /\ (Get(t, "category", "") = "Praise" /\ high) =>
                      /\ ~t.quality_passed
                      /\ \E b \in DOMAIN issues :
                            issues[b] = "Praise feedback should have Low priority"

C19_Witness ==
    /\ Reviewed
    /\ \E k \in DOMAIN tickets :
          /\ Get(tickets[k], "category", "") = "Spam" /\ Get(tickets[k], "priority", "") = "Critical"
          /\ Get(tickets[k], "confidence", 0) = 850
          /\ Get(tickets[k], "title", "") = "Login crashes on start"
          /\ Len(tickets[k].quality_issues) = 2
          /\ tickets[k].quality_issues[2] = "Spam should not have high priority"

IsLowConfidenceIssue(issue) ==
    \E n \in GateConfidences \cup {0} : issue = LowConfidenceIssue(n)

HasLowConfidenceIssue(ticket) ==
    \E a \in DOMAIN ticket.quality_issues :
        IsLowConfidenceIssue(ticket.quality_issues[a])

\* The ticket holds every required field, a title of 5 to 200 characters
\* and a priority of the expected set of its category.
WellFormed(ticket) ==
    /\ \A f \in Range(REQUIRED_TICKET_FIELDS) : ~IsMissing(ticket, f)
    /\ Len(ticket.title) >= 5
    /\ Len(ticket.title) <= 200
    /\ ticket.priority \in ClaimedExpected(ticket.category)

\* C20: after the quality review, a ticket with a confidence below the
\* threshold has failed with a "Low confidence" issue, a ticket with a
\* confidence at or above it has no such issue, and a ticket that is
\* complete, has a title of 5 to 200 characters, a confidence at or above
\* the threshold and a priority of its category's expected set has passed.
C20_LowConfidenceFlagged ==
    Reviewed =>
        \A k \in DOMAIN tickets :
            LET t == tickets[k] IN
            "confidence" \in DOMAIN t =>
                IF t.confidence < confidence_threshold
                THEN ~t.quality_passed /\ HasLowConfidenceIssue(t)
                ELSE /\ ~HasLowConfidenceIssue(t)
                     /\ (WellFormed(t) => t.quality_passed)

C20_Witness ==
    /\ Reviewed
    /\ \E j, k \in DOMAIN tickets :
          /\ Get(tickets[j], "confidence", 0) = 300
          /\ Get(tickets[j], "priority", "") = "Medium"
          /\ tickets[j].quality_issues = <<"Low confidence: 0.30 < threshold 0.6">>
          /\ Get(tickets[k], "confidence", 0) = 850 /\ tickets[k].quality_passed

\* QualityCriticAgent.execute has returned from its second call.
ReviewedAgain == pc = "reviewed again"

\* C21: a second quality review of the tickets the first one returned
\* gives every ticket the verdict it had and as many issues; a ticket that
\* had passed has an empty issue list and quality_passed true again, and is
\* the ticket it was.
C21_SecondReviewChangesNothing ==
    [][(pc = "metrics" /\ pc' = "reviewed again") =>
          /\ Len(tickets') = Len(tickets)
          /\ \A k \in DOMAIN tickets :
                /\ tickets'[k].quality_passed = tickets[k].quality_passed
                /\ Len(tickets'[k].quality_issues) = Len(tickets[k].quality_issues)
                /\ DOMAIN tickets'[k] = DOMAIN tickets[k]
                /\ tickets[k].quality_passed =>
                      /\ tickets'[k].quality_issues = <<>>
                      /\ tickets'[k].quality_passed
                      /\ tickets'[k] = tickets[k]]_vars

C21_Witness ==
    /\ ReviewedAgain
    /\ \E j, k \in DOMAIN tickets :
          /\ tickets[j].quality_passed /\ tickets[j].quality_issues = <<>>
          /\ Get(tickets[j], "category", "") = "Bug"
          /\ ~tickets[k].quality_passed
          /\ Get(tickets[k], "category", "") = "Spam"

\* compute_metrics has returned from a call of its own.
Computed == pc = "computed"

\* The prediction for a record: the category of the last ticket that names
\* it as its source, "" when no ticket does or the ticket has no category.
Prediction(id) ==
    LET named == {k \in DOMAIN tickets : Get(tickets[k], "source_id", "") = id}
    IN  IF named = {} THEN ""
        ELSE Get(tickets[CHOOSE k \in named : \A j \in named : j <= k],
                 "category", "")

\* The expected entries whose prediction is right, is wrong and names the
\* category, and is wrong or missing while the entry expects the category.
Hits(c) ==
    {k \in DOMAIN expected_labels :
        /\ expected_labels[k].category = c
        /\ Prediction(expected_labels[k].record_id) = c
        /\ c # ""}

FalseAlarms(c) ==
    {k \in DOMAIN expected_labels :
        /\ Prediction(expected_labels[k].record_id) = c
        /\ c # ""
        /\ expected_labels[k].category # c}

Misses(c) ==
    {k \in DOMAIN expected_labels :
        /\ expected_labels[k].category = c
        /\ \/ Prediction(expected_labels[k].record_id) = ""
           \/ Prediction(expected_labels[k].record_id) # c}

\* C22: in the report, the true positives of a category are the expected
\* entries predicted with that same category, its false positives the
\* entries wrongly predicted as it, its false negatives the entries that
\* expect it and are predicted otherwise or not at all; every entry counts
\* once in total_expected; a ratio whose denominator is 0 is 0.0.
C22_CountsFollowThePredictions ==
    Computed =>
        /\ metrics.total_expected = Len(expected_labels)
        /\ \A k \in DOMAIN expected_labels :
              /\ expected_labels[k].category \in DOMAIN metrics.per_category
              /\ Prediction(expected_labels[k].record_id) # "" =>
                    Prediction(expected_labels[k].record_id)
                        \in DOMAIN metrics.per_category
        /\ \A c \in DOMAIN metrics.per_category :
              LET m == metrics.per_category[c] IN
              /\ m.true_positives = Cardinality(Hits(c))
              /\ m.false_positives = Cardinality(FalseAlarms(c))
              /\ m.false_negatives = Cardinality(Misses(c))
              /\ (m.true_positives + m.false_positives = 0) => m.precision = 0
              /\ (m.true_positives + m.false_negatives = 0) => m.recall = 0
              /\ (m.precision = 0 /\ m.recall = 0) => m.f1 = 0

\* Two tickets and three labels: one right, one wrong, one without ticket.
C22_Witness ==
    /\ Computed
    /\ Len(expected_labels) = 3
    /\ metrics.total_expected = 3
    /\ "Bug" \in DOMAIN metrics.per_category
    /\ "Praise" \in DOMAIN metrics.per_category
    /\ metrics.per_category["Bug"].true_positives = 1
    /\ metrics.per_category["Bug"].false_positives = 1
    /\ metrics.per_category["Praise"].false_negatives = 2
    /\ metrics.per_category["Praise"].precision = 0
    /\ metrics.per_category["Bug"].precision = 5000

\* The sum of the values of a dict of numbers.
RECURSIVE SumValues(_)
SumValues(d) ==
    IF DOMAIN d = {} THEN 0
    ELSE LET k == CHOOSE x \in DOMAIN d : TRUE
         IN  d[k] + SumValues([x \in DOMAIN d \ {k} |-> d[x]])

Counted(name) ==
    SumValues([c \in DOMAIN metrics.per_category |->
                  metrics.per_category[c][name]])

\* C30: in every report, the true positives sum to correct_predictions,
\* true positives and false negatives together to total_expected, there
\* are no more false positives than false negatives, no more correct
\* predictions than expected entries, and tickets_per_category and
\* priority_distribution each sum to total_tickets.
C30_ReportIsConsistent ==
    Computed =>
        /\ Counted("true_positives") = metrics.correct_predictions
        /\ Counted("true_positives") + Counted("false_negatives")
              = metrics.total_expected
        /\ Counted("false_positives") <= Counted("false_negatives")
        /\ metrics.correct_predictions <= metrics.total_expected
        /\ SumValues(metrics.tickets_per_category) = metrics.total_tickets
        /\ SumValues(metrics.priority_distribution) = metrics.total_tickets
        /\ metrics.total_tickets = Len(tickets)

\* Two tickets, one of them without a category; a right prediction, a
\* wrong one and an entry without prediction.
C30_Witness ==
    /\ Computed
    /\ Len(tickets) = 2
    /\ \E k \in DOMAIN tickets : "category" \notin DOMAIN tickets[k]
    /\ "Unknown" \in DOMAIN metrics.tickets_per_category
    /\ metrics.correct_predictions = 1
    /\ metrics.total_expected = 3
    /\ Counted("false_positives") = 0
    /\ Counted("false_negatives") = 2

\* run() has returned its tickets and metrics.
Done == pc = "done"

\* The report counts the tickets, and the run has a ticket for every record
\* whose ticket creation raised nothing.
TicketsReported ==
    /\ metrics.total_tickets = Len(tickets)
    /\ \A k \in DOMAIN records :
          ~Errors("TicketCreatorAgent", records[k].record_id) =>
              \E t \in DOMAIN tickets :
                  tickets[t].source_id = records[k].record_id

\* Without expected labels the accuracy and both counts are 0.
NoLabelsNoAccuracy ==
    expected_labels = <<>> =>
        /\ metrics.overall_accuracy = 0
        /\ metrics.total_expected = 0
        /\ metrics.correct_predictions = 0

LaterAgents ==
    {"ClassifierAgent", "BugAnalysisAgent", "FeatureExtractorAgent",
     "TicketCreatorAgent", "QualityCriticAgent"}

\* The run has returned without processing a batch: nothing was ingested,
\* there are no tickets and no metrics, the abort is logged as an ERROR
\* and no later agent has logged anything.
AbortedOnEmptyIngestion ==
    /\ ingested = <<>>
    /\ records = <<>>
    /\ tickets = <<>>
    /\ metrics = EmptyDict
    /\ log # <<>>
    /\ log[Len(log)] = Entry("Orchestrator", "pipeline_abort", "ERROR", "")
    /\ \A k \in DOMAIN log : log[k].agent \notin LaterAgents

\* C24: a run is aborted exactly when ingestion yields no record, and then
\* it logs an ERROR and returns no ticket, no stage after ingestion having
\* run; a run that ingested a record goes on to compute its metrics,
\* whatever fails for single records on the way.
C24_OnlyEmptyIngestionAborts ==
    /\ [](pc = "aborted" => AbortedOnEmptyIngestion)
    /\ [](pc \notin {"ingest", "aborted"} => ingested # <<>>)
    /\ (pc = "classify") ~> (pc = "done" /\ DOMAIN metrics # {})

\* A completed run in which classification and bug analysis raised.
C24_Witness ==
    /\ Done
    /\ DOMAIN metrics # {}
    /\ \E k \in DOMAIN records :
          /\ Errors("ClassifierAgent", records[k].record_id)
    /\ \E k \in DOMAIN records :
          /\ Errors("BugAnalysisAgent", records[k].record_id)

\* The order of the stages, and the place of each agent in it.
StageSteps ==
    { <<"ingest", "aborted">>, <<"ingest", "classify">>, <<"classify", "bug">>,
      <<"bug", "feature">>, <<"feature", "tickets">>, <<"tickets", "quality">>,
      <<"quality", "metrics">>, <<"metrics", "done">> }

AgentRank(agent) ==
    CASE agent = "CSVReaderAgent" -> 1
      [] agent = "ClassifierAgent" -> 2
      [] agent = "BugAnalysisAgent" -> 3
      [] agent = "FeatureExtractorAgent" -> 4
      [] agent = "TicketCreatorAgent" -> 5
      [] agent = "QualityCriticAgent" -> 6
      [] OTHER -> 7

\* The theme table of the whole batch: for every theme a feature request
\* matches, the number of feature requests that match it.
WholeBatchThemes(recs) ==
    LET requests == Indexes(recs, "Feature Request")
        frequency(t) == Cardinality({k \in requests :
                            ThemeMatches(LowerText(recs[k].text), t)})
        matched == {t \in DOMAIN FEATURE_THEMES : frequency(t) > 0}
    IN  [name \in {FEATURE_THEMES[t][1] : t \in matched} |->
            frequency(CHOOSE t \in matched : FEATURE_THEMES[t][1] = name)]

LargestCount(table) ==
    IF DOMAIN table = {} THEN 1
    ELSE CHOOSE n \in Range([x \in DOMAIN table |-> table[x]]) :
             \A t \in DOMAIN table : table[t] <= n

\* C25: the run moves from stage to stage in the one order classify, bug
\* analysis, feature analysis, default priority and ticket creation, quality
\* gate, metrics; a stage is left only when its loop has visited every
\* record, every bug then holding its details and every feature request
\* its details; the log entries of the agents follow the same order; and
\* the theme table and its maximum are those of the whole batch from the
\* moment the feature stage starts, and do not change while it scores.
C25_StagesRunInOrder ==
    [][ /\ pc' # pc =>
              /\ <<pc, pc'>> \in StageSteps
              /\ pc \in {"classify", "bug", "feature", "tickets"} =>
                    i > Len(records)
              /\ pc = "classify" => Len(classified) = Len(records)
              /\ pc = "bug" =>
                    \A k \in Indexes(records, "Bug") :
                        "bug_details" \in DOMAIN records[k]
              /\ pc = "feature" =>
                    \A k \in Indexes(records, "Feature Request") :
                        "feature_details" \in DOMAIN records[k]
        /\ Len(log') >= Len(log)
        /\ SubSeq(log', 1, Len(log)) = log
        /\ \A k \in (Len(log) + 1)..Len(log') :
              k > 1 => AgentRank(log'[k - 1].agent) <= AgentRank(log'[k].agent)
        /\ pc' = "feature" =>
              /\ theme_counts' = WholeBatchThemes(records')
              /\ max_count' = LargestCount(theme_counts')
        /\ (pc = "feature" /\ pc' = "feature") =>
              /\ theme_counts' = theme_counts
              /\ max_count' = max_count
      ]_vars

\* The feature stage has scored the first of three feature requests, two
\* of one theme, and the table counts both.
C25_Witness ==
    /\ pc = "feature"
    /\ Cardinality(Indexes(records, "Feature Request")) = 3
    /\ \E j, k \in Indexes(records, "Feature Request") :
          /\ "feature_details" \in DOMAIN records[j]
          /\ "feature_details" \notin DOMAIN records[k]
    /\ "integration" \in DOMAIN theme_counts
    /\ theme_counts["integration"] = 2
    /\ max_count = 2

\* Nothing has raised in the run.
NothingRaised == \A k \in DOMAIN log : log[k].status # "ERROR"

Reorderings(n) ==
    {p \in [1..n -> 1..n] : \A a, b \in 1..n : a # b => p[a] # p[b]}

\* What the pipeline decides about a record.
Decided(record) ==
    [category |-> Get(record, "category", ""),
     confidence |-> Get(record, "confidence", 0 - 1),
     severity |-> Get(Get(record, "bug_details", EmptyDict), "severity", ""),
     theme |-> Get(Get(record, "feature_details", EmptyDict), "theme", ""),
     demand_score |-> Get(Get(record, "feature_details", EmptyDict),
                          "demand_score", 0 - 1),
     priority |-> Get(record, "priority", "")]

\* The record stripped of all but its text and its rating.
TextAndRating(record) ==
    [text |-> record.text, metadata |-> [rating |-> RatingOf(record)]]

\* C26: a run in which nothing raises ends with the records and the
\* tickets that are a function of the batch it ingested; and for a batch
\* and any permutation of it, every record is given the same category,
\* confidence, severity, theme, demand_score and priority in both, its
\* category and confidence being those of its text and rating alone.
C26_OutcomeIsAFunctionOfTheBatch ==
    /\ (Done /\ NothingRaised) =>
          /\ records = run_records(ingested)
          /\ tickets = run_tickets(ingested)
    /\ (pc = "classify" /\ i = 1) =>
          LET here == run_records(ingested) IN
          /\ \A p \in Reorderings(Len(ingested)) :
                LET there == run_records([k \in DOMAIN ingested |-> ingested[p[k]]])
                IN  \A k \in DOMAIN ingested :
                        Decided(there[k]) = Decided(here[p[k]])
          /\ \A k \in DOMAIN ingested :
                LET alone == Classification(TextAndRating(ingested[k])) IN
                /\ here[k].category = alone.category
                /\ here[k].confidence = alone.confidence

\* A run of the batch of two integration requests and a request of no
\* theme has come to its end and nothing has raised.
C26_Witness ==
    /\ Done
    /\ NothingRaised
    /\ Len(ingested) = 3
    /\ Len(tickets) = 3
    /\ records[1].feature_details.demand_score = 1000
    /\ records[3].feature_details.demand_score = 500
    /\ tickets[3].priority = "Medium"

\* The step leaves the record its fields, and its category and confidence
\* if it had them.
KeepsClassification(before, after) ==
    /\ DOMAIN before \subseteq DOMAIN after
    /\ "category" \in DOMAIN before =>
          /\ after.category = before.category
          /\ after.confidence = before.confidence

\* C27: no step takes a field from a record or changes the category or
\* the confidence the Classifier gave it; a step of the bug stage changes
\* only records of category Bug and a step of the feature stage only
\* records of category Feature Request; and the category and confidence of
\* a ticket are those of the record it was made from.
C27_ClassificationIsKept ==
    [][ /\ pc # "ingest" =>
              /\ Len(records') = Len(records)
              /\ \A k \in DOMAIN records :
                    KeepsClassification(records[k], records'[k])
        /\ pc = "bug" =>
              \A k \in DOMAIN records :
                  records[k].category # "Bug" => records'[k] = records[k]
        /\ pc = "feature" /\ pc' = "feature" =>
              \A k \in DOMAIN records :
                  records[k].category # "Feature Request" =>
                      records'[k] = records[k]
        /\ pc \in {"tickets", "quality", "metrics"} => records' = records
        /\ \A t \in DOMAIN tickets' :
              \E k \in DOMAIN records' :
                  /\ tickets'[t].source_id = records'[k].record_id
                  /\ tickets'[t].category = records'[k].category
                  /\ tickets'[t].confidence = records'[k].confidence
      ]_vars

\* A reviewed ticket of a bug, next to a record the bug stage passed over.
C27_Witness ==
    /\ pc = "metrics"
    /\ Len(records) = 2
    /\ Len(tickets) = 2
    /\ records[1].category = "Bug"
    /\ "bug_details" \in DOMAIN records[1]
    /\ records[2].category = "Praise"
    /\ "bug_details" \notin DOMAIN records[2]
    /\ tickets[1].category = "Bug"
    /\ tickets[1].confidence = records[1].confidence
    /\ tickets[2].category = "Praise"

\* The prefix of the ticket ids of a category.
ClaimedPrefix(category) ==
    CASE category = "Bug" -> "BUG"
      [] category = "Feature Request" -> "FEAT"
      [] category = "Praise" -> "PRS"
      [] category = "Complaint" -> "CMP"
      [] category = "Spam" -> "SPM"
      [] OTHER -> "TKT"

\* TicketCreatorAgent.execute has returned.
TicketsMade == pc = "quality"

\* C28: when the ticket creator returns, every ticket is made from a record
\* of the batch: its source_id is the record_id of the record and its
\* ticket_id the prefix of the record's category, a dash and the record's
\* position in the batch (from 1, in 4 digits); no two tickets have the
\* same ticket_id, whether or not the creation of other tickets failed.
C28_TicketIdentity ==
    TicketsMade =>
        /\ \A t \in DOMAIN tickets :
              \E k \in DOMAIN records :
                  /\ tickets[t].source_id = records[k].record_id
                  /\ tickets[t].ticket_id =
                        ClaimedPrefix(records[k].category) \o "-" \o Pad4(k)
        /\ \A t, u \in DOMAIN tickets :
              t # u => tickets[t].ticket_id # tickets[u].ticket_id

\* The creation of the first record's ticket failed: the one ticket is
\* that of the second record.
C28_Witness ==
    /\ TicketsMade
    /\ Len(records) = 2
    /\ Errors("TicketCreatorAgent", records[1].record_id)
    /\ Len(tickets) = 1
    /\ tickets[1].ticket_id = "PRS-0002"
    /\ tickets[1].source_id = "R2"

\* The issue is one of checks (1), (2) or (3) on the ticket.
IsFormIssue(issue, ticket) ==
    \/ \E f \in Range(REQUIRED_TICKET_FIELDS) : issue = "Missing field: " \o f
    \/ issue = "Title too short"
    \/ issue = "Title too long"
    \/ issue = LowConfidenceIssue(ticket.confidence)

\* C29: after the quality review of a pipeline run, every ticket of a
\* category that has an expected set has its priority in that set, whether
\* or not the enrichment of its record raised; no ticket has an issue of
\* check (4), (5) or (6): every issue is a missing field, a title length
\* or a low confidence.
C29_PipelinePrioritiesAreExpected ==
    Reviewed =>
        \A t \in DOMAIN tickets :
            LET ticket == tickets[t]
                issues == ticket.quality_issues
            IN  /\ ClaimedExpected(ticket.category) # {} =>
                      ticket.priority \in ClaimedExpected(ticket.category)
                /\ ~HasPriorityIssue(ticket)
                /\ \A a \in DOMAIN issues :
                      /\ issues[a] # "Spam should not have high priority"
                      /\ issues[a] # "Praise feedback should have Low priority"
                      /\ IsFormIssue(issues[a], ticket)

\* A bug whose analysis raised passes with priority Medium; a complaint by
\* default fails on its confidence alone.
C29_Witness ==
    /\ Reviewed
    /\ Len(tickets) = 2
    /\ tickets[1].category = "Bug"
    /\ Errors("BugAnalysisAgent", tickets[1].source_id)
    /\ tickets[1].priority = "Medium"
    /\ tickets[1].quality_passed
    /\ tickets[2].category = "Complaint"
    /\ tickets[2].priority = "High"
    /\ tickets[2].quality_issues = <<"Low confidence: 0.30 < threshold 0.6">>

=============================================================================
